---- MODULE Spec2Model ----
(***************************************************************************)
(* A model of the document pipeline of src/processing.py:                  *)
(*   - process_zip_file: grouping, the classification pool, the filter     *)
(*     that builds the extraction tasks, the extraction pool, aggregation  *)
(*     and the save step (specification Spec);                             *)
(*   - one stage call (_classify_document_type or                          *)
(*     _extract_data_from_document) with _call_vertex_ai_with_retry and    *)
(*     _parse_vertex_json_response, one generate_content call at a time    *)
(*     (specification SpecRetry).                                          *)
(*                                                                         *)
(* Conventions.  A Python str that the code builds by formatting is a      *)
(* sequence of pieces (the literal parts and the formatted values); two    *)
(* strs are equal when their sequences are.  A Python dict is a function   *)
(* whose domain is the set of its keys.  A JSON value is a record tagged   *)
(* with its type, so that values of different types can be compared.       *)
(***************************************************************************)
EXTENDS Integers, Sequences, FiniteSets, TLC

\* ------------------------------------------------------------------ bounds
\* The largest number of case folders in a batch.
NumCases == 2
\* The largest number of document groups in a batch, over all its cases.
MaxGroups == 2

\* --------------------------------------------------------------- JSON values
JNull == [t |-> "null"]
JStr(s) == [t |-> "str", v |-> s]
JNum(n) == [t |-> "num", v |-> n]
JList(items) == [t |-> "list", v |-> items]
JDict(d) == [t |-> "dict", v |-> d]

\* bool(x) of a JSON value, as Python's `if x` and `x and ...` take it.
Truthy(j) ==
    CASE j.t = "null" -> FALSE
      [] j.t = "str" -> j.v # <<>>
      [] j.t = "num" -> j.v # 0
      [] j.t = "list" -> j.v # <<>>
      [] j.t = "dict" -> DOMAIN j.v # {}

\* Lists and dicts have no hash: using one as a dict key, or testing it with
\* `in` against a dict, raises TypeError.
Hashable(j) == j.t \notin {"list", "dict"}

\* d.get(k): the value under k, or None.
Get(d, k) == IF k \in DOMAIN d THEN d[k] ELSE JNull

\* The pieces of a dict key or catalog name when it is formatted into a str.
Chars(name) == <<name>>

\* str(x) / f"{x}" of a JSON value.
Format(j) ==
    CASE j.t = "null" -> <<"None">>
      [] j.t = "str" -> j.v
      [] j.t = "num" -> <<ToString(j.v)>>
      [] j.t = "list" -> <<"[...]">>
      [] j.t = "dict" -> <<"{...}">>

\* ------------------------------------------------------------ file names
\* A file name is the sequence of its characters.
UpperToLower ==
    [A |-> "a", B |-> "b", C |-> "c", D |-> "d", E |-> "e", F |-> "f", G |-> "g",
     H |-> "h", I |-> "i", J |-> "j", K |-> "k", L |-> "l", M |-> "m", N |-> "n",
     O |-> "o", P |-> "p", Q |-> "q", R |-> "r", S |-> "s", T |-> "t", U |-> "u",
     V |-> "v", W |-> "w", X |-> "x", Y |-> "y", Z |-> "z"]

\* str.lower / re.IGNORECASE on one character and on a string.
Lower(c) == IF c \in DOMAIN UpperToLower THEN UpperToLower[c] ELSE c
LowerStr(s) == [i \in DOMAIN s |-> Lower(s[i])]

\* The characters \d matches, and int() of a string of them.
Digits == {"0", "1", "2", "3", "4", "5", "6", "7", "8", "9"}
DigitValue(c) == CHOOSE n \in 0..9 : ToString(n) = c

RECURSIVE IntOf(_)
IntOf(digits) ==
    IF digits = <<>> THEN 0
    ELSE 10 * IntOf(SubSeq(digits, 1, Len(digits) - 1)) + DigitValue(digits[Len(digits)])

\* The last position of character c in s, 0 when s has none.
LastIndexOf(s, c) ==
    IF \E i \in DOMAIN s : s[i] = c
    THEN CHOOSE i \in DOMAIN s : s[i] = c /\ \A j \in DOMAIN s : s[j] = c => j <= i
    ELSE 0

\* Path(filename).name (utils.py line 60): what follows the last "/".
PathName(filename) == SubSeq(filename, LastIndexOf(filename, "/") + 1, Len(filename))

\* name_with_ext.rsplit('.', 1) and lines 63-66: the name up to its last
\* dot, the whole name when it has no dot.
NameNoExt(name_with_ext) ==
    IF LastIndexOf(name_with_ext, ".") = 0 THEN name_with_ext
    ELSE SubSeq(name_with_ext, 1, LastIndexOf(name_with_ext, ".") - 1)

\* s.strip(' _') (line 82).
RECURSIVE StripSeparators(_)
StripSeparators(s) ==
    IF s = <<>> THEN s
    ELSE IF Head(s) \in {" ", "_"} THEN StripSeparators(Tail(s))
    ELSE IF s[Len(s)] \in {" ", "_"} THEN StripSeparators(SubSeq(s, 1, Len(s) - 1))
    ELSE s

\* Where the run of digits that ends s starts; Len(s) + 1 when s does not end
\* in a digit.
DigitsStart(s) ==
    CHOOSE d \in 1..(Len(s) + 1) :
        /\ \A i \in d..Len(s) : s[i] \in Digits
        /\ d > 1 => s[d - 1] \notin Digits

\* The search of line 75 without re.IGNORECASE.
PageMatchStart_CaseSensitive(s) ==
    LET d == DigitsStart(s)
    IN IF d > Len(s) THEN 0
       ELSE IF d > 4 /\ SubSeq(s, d - 4, d - 1) = <<"P", "a", "g", "e">>
       THEN d - 4
       ELSE IF d > 1 /\ s[d - 1] \in {" ", "_"} THEN d - 1
       ELSE d

\* re.search(r'(?:[ _]|Page)?(\d+)$', s, re.IGNORECASE) (line 75): 0 when
\* there is no match, else the position match.start() + 1 of the leftmost
\* match.  \d+$ can only match inside the run of digits that ends s, and a
\* separator can only stand right before that run, so the leftmost match
\* starts at "page" before the run, or at a space or underscore before it, or
\* at the run.
PageMatchStart(s) ==
    LET d == DigitsStart(s)
    IN IF d > Len(s) THEN 0
       ELSE IF d > 4 /\ LowerStr(SubSeq(s, d - 4, d - 1)) = <<"p", "a", "g", "e">>
       THEN d - 4
       ELSE IF d > 1 /\ s[d - 1] \in {" ", "_"} THEN d - 1
       ELSE d

\* Lines 86-88 without the replacement of an empty base name.
NonEmptyBaseName_Unchecked(base_name) == base_name

\* The final check of lines 86-88.
NonEmptyBaseName(base_name) ==
    IF base_name = <<>> THEN <<"unknown_doc">> ELSE base_name

\* parse_filename_for_grouping (utils.py lines 53-92): (base_name, page_number).
parse_filename_for_grouping(filename) ==
    LET name_no_ext == NameNoExt(PathName(filename))
        start == PageMatchStart(name_no_ext)
        potential_base_name == SubSeq(name_no_ext, 1, start - 1)
        matched == start # 0 /\ potential_base_name # <<>>
        page_number ==
            IF matched
            THEN IntOf(SubSeq(name_no_ext, DigitsStart(name_no_ext), Len(name_no_ext)))
            ELSE 1
        base_name ==
            IF matched THEN StripSeparators(potential_base_name) ELSE name_no_ext
    IN <<NonEmptyBaseName(base_name), page_number>>

\* config.py line 56.
SUPPORTED_FILE_EXTENSIONS ==
    << <<".", "p", "d", "f">>, <<".", "p", "n", "g">>,
       <<".", "j", "p", "g">>, <<".", "j", "p", "e", "g">> >>

\* Lines 202-207 without re.IGNORECASE.
IsSupportedName_CaseSensitive(name) ==
    \E e \in DOMAIN SUPPORTED_FILE_EXTENSIONS :
        LET ext == SUPPORTED_FILE_EXTENSIONS[e]
        IN /\ Len(name) >= Len(ext)
           /\ SubSeq(name, Len(name) - Len(ext) + 1, Len(name)) = ext

\* re.match(supported_file_pattern, name, re.IGNORECASE) (lines 202-207): the
\* name ends in one of the extensions, letter case apart.
IsSupportedName(name) ==
    \E e \in DOMAIN SUPPORTED_FILE_EXTENSIONS :
        LET ext == SUPPORTED_FILE_EXTENSIONS[e]
        IN /\ Len(name) >= Len(ext)
           /\ LowerStr(SubSeq(name, Len(name) - Len(ext) + 1, Len(name))) = ext

\* Line 217 left out: the files stay in the order they were appended in.
SortByPage_Unsorted(files) == files

\* list.sort(key=lambda x: x["page"]) (line 217): a stable sort, so files
\* with the same page keep the order they were appended in.
RECURSIVE SortByPage(_)
SortByPage(files) ==
    IF files = <<>> THEN <<>>
    ELSE LET sorted == SortByPage(SubSeq(files, 1, Len(files) - 1))
             last == files[Len(files)]
             k == Cardinality({i \in DOMAIN sorted : sorted[i].page <= last.page})
         IN SubSeq(sorted, 1, k) \o <<last>> \o SubSeq(sorted, k + 1, Len(sorted))

\* doc_groups[base_name].append(...) (line 211): a dict is the sequence of
\* its items in insertion order.
AppendToGroup(doc_groups, base_name, file) ==
    IF \E g \in DOMAIN doc_groups : doc_groups[g].base_name = base_name
    THEN [g \in DOMAIN doc_groups |->
             IF doc_groups[g].base_name = base_name
             THEN [doc_groups[g] EXCEPT !.files = Append(@, file)]
             ELSE doc_groups[g]]
    ELSE Append(doc_groups, [base_name |-> base_name, files |-> <<file>>])

\* The loop of lines 205-213 over the entries glob lists, in listing order.
RECURSIVE CollectGroups(_, _)
CollectGroups(listing, doc_groups) ==
    IF listing = <<>> THEN doc_groups
    ELSE LET doc_file == Head(listing)
         IN IF ~doc_file.is_file \/ ~IsSupportedName(doc_file.name)
            THEN CollectGroups(Tail(listing), doc_groups)
            ELSE LET parsed == parse_filename_for_grouping(doc_file.name)
                 IN CollectGroups(Tail(listing),
                        AppendToGroup(doc_groups, parsed[1],
                                      [path |-> doc_file.name, page |-> parsed[2]]))

\* _group_files_by_base_name (lines 197-221) on the listing of a folder.
group_files_by_base_name(listing) ==
    LET doc_groups == CollectGroups(listing, <<>>)
    IN [g \in DOMAIN doc_groups |->
           [doc_groups[g] EXCEPT !.files = SortByPage(@)]]

\* ------------------------------------------------------- injected catalogs
\* DOCUMENT_FIELDS maps a document type to the list of its field
\* definitions; the model keeps each definition's name.
RealCatalog == [CRL |-> <<"DATE", "AMOUNT">>, INVOICE |-> <<"DATE", "AMOUNT">>]
\* A catalog with a type that has no field and with an "UNKNOWN" key.
OddCatalog == [CRL |-> <<>>, INVOICE |-> <<"DATE", "AMOUNT">>, UNKNOWN |-> <<"DATE">>]
Catalogs == {RealCatalog, OddCatalog}

\* settings.MAX_WORKERS is an environment tunable: the runs of the model use
\* a pool of one worker (tasks run one after the other) or of two.
PoolSizes == {1, 2}

VARIABLES
    DOCUMENT_FIELDS,        \* the field catalog the run is configured with
    MAX_WORKERS,            \* the pool size the run is configured with
    case_folders,           \* input: the case folders of the zip, each with its listing
    pc,                     \* position of process_zip_file
    exc,                    \* the exception process_zip_file raised, if any
    initial_groups,         \* per case folder, its case_id and groups (line 356)
    classification_tasks,   \* the keys submitted to the Classifier pool, in order
    cls_state,              \* key -> state of its classification future
    classification_results, \* the dict of line 386, in insertion order
    extraction_tasks,       \* the list of line 407
    ext_state,              \* key -> state of its extraction future
    extraction_results_map, \* the dict of line 456, in insertion order
    final_results_list,     \* the rows, in order (line 336)
    \* one stage call, followed one generate_content call at a time
    stage,                  \* "classify" or "extract": the call site
    rpc,                    \* position of the stage call
    num_retries,            \* line 85
    delay,                  \* line 86, in quarters of a second
    attempts,               \* what each generate_content call did, in order
    sleeps,                 \* the number of time.sleep calls made
    last_sleep,             \* the delay and actual_delay of the last sleep
    stage_result,           \* the dict the stage call returned
    \* one call of parse_filename_for_grouping
    filename,               \* its argument
    parsed,                 \* the tuple it returned, <<>> before it returns
    \* the columns of one field of one document type
    named,                  \* the classified type and the field name
    columns,                \* the names of the field's columns, {} before they are built
    \* the server of main.py with its /process-zip/ requests
    request,                \* request -> position of create_upload_file and of its response
    temp_zips,              \* the requests whose temp_zip_path exists under TEMP_DIR
    output_excel,           \* the file OUTPUT_FILENAME names: 0 when there is none
    files,                  \* the spreadsheets written, each with the request whose rows it holds
    response_file,          \* request -> the file its FileResponse has opened, 0 before
    received                \* request -> the chunks its client received, in order

orchVars == <<DOCUMENT_FIELDS, MAX_WORKERS, case_folders, pc, exc, initial_groups,
              classification_tasks, cls_state, classification_results, extraction_tasks, ext_state,
              extraction_results_map, final_results_list>>

retryVars == <<stage, rpc, num_retries, delay, attempts, sleeps, last_sleep,
               stage_result>>

parseVars == <<filename, parsed>>

nameVars == <<named, columns>>

serverVars == <<request, temp_zips, output_excel, files, response_file, received>>

vars == <<orchVars, retryVars, parseVars, nameVars, serverVars>>

\* ------------------------------------------------------------- the inputs
\* A regular file and a sub-directory, as folder_path.glob('*') lists them.
File(name) == [name |-> name, is_file |-> TRUE]
Directory(name) == [name |-> name, is_file |-> FALSE]

\* The files of the document groups a case folder of the model may hold:
\* a two-page document listed last page first, and three one-page documents.
StockGroups ==
    << << File(<<"a", " ", "2", ".", "p", "d", "f">>),
          File(<<"a", " ", "1", ".", "p", "d", "f">>) >>,
       << File(<<"b", ".", "P", "N", "G">>) >>,
       << File(<<"c", "1", ".", "j", "p", "g">>) >>,
       << File(<<"d", "_", "1", ".", "j", "p", "e", "g">>) >> >>

\* The listing of a case folder with k document groups: a file that is no
\* document, then the files of the first k stock groups.
RECURSIVE StockListing(_)
StockListing(k) ==
    IF k = 0 THEN <<File(<<"n", ".", "t", "x", "t">>)>>
    ELSE StockListing(k - 1) \o StockGroups[k]

CaseName(c) == <<"case", ToString(c)>>
CaseFolder(c, k) == [name |-> CaseName(c), listing |-> StockListing(k)]

RECURSIVE SumSeq(_)
SumSeq(s) == IF s = <<>> THEN 0 ELSE Head(s) + SumSeq(Tail(s))

\* A batch gives each of its case folders a number of groups.  iterdir lists
\* the folders in an arbitrary order; the batches of the model list the
\* fuller folders first.
GroupCounts ==
    UNION {{ks \in [1..n -> 0..MaxGroups] :
                /\ SumSeq(ks) <= MaxGroups
                /\ \A c \in 1..(n - 1) : ks[c] >= ks[c + 1]} : n \in 0..NumCases}

Layouts == {[c \in DOMAIN ks |-> CaseFolder(c, ks[c])] : ks \in GroupCounts}

\* Lines 362-365: initial_groups after the loop over folders, each case with
\* its case_id (the folder's name) and the groups found in it.
InitialGroups(folders) ==
    [c \in DOMAIN folders |->
        [case_id |-> folders[c].name,
         groups |-> group_files_by_base_name(folders[c].listing)]]

\* The keys (case_id, base_name) of the groups, in the order of the loops of
\* lines 381-384.
RECURSIVE KeysFrom(_, _)
KeysFrom(groups, c) ==
    IF c > Len(groups) THEN <<>>
    ELSE [g \in DOMAIN groups[c].groups |->
             <<groups[c].case_id, groups[c].groups[g].base_name>>]
         \o KeysFrom(groups, c + 1)

Range(s) == {s[i] : i \in DOMAIN s}

\* ----------------------------------------- what a stage call can return
\* _parse_vertex_json_response (lines 154-194) on the response of a
\* successful generate_content call.
ParseResponse(response) ==
    CASE response.kind = "blocked" ->
            [error |-> JStr(<<"Content Blocked: ", response.reason>>),
             safety_ratings |-> JStr(<<"ratings">>)]
      [] response.kind = "empty" ->
            [error |-> JStr(<<"Empty or invalid response object">>)]
      [] response.kind = "not_json" ->
            [error |-> JStr(<<"Invalid JSON structure">>),
             raw_response |-> JStr(<<"raw">>)]
      [] response.kind = "bad_json" ->
            [error |-> JStr(<<"JSON Decode Error">>),
             raw_response |-> JStr(<<"raw">>)]
      [] response.kind = "json" -> response.data

\* The exceptions google.api_core.exceptions defines (GoogleAPIError and its
\* subclasses) among those generate_content can raise.
GoogleAPIErrors ==
    {"ResourceExhausted", "TooManyRequests", "ServiceUnavailable",
     "DeadlineExceeded", "InvalidArgument"}

\* Lines 262-267 and 319-324 with the exception left out of the message.
StageErrorResult_NoDetail(e) ==
    IF e \in GoogleAPIErrors
    THEN [error |-> JStr(<<"Vertex AI API Error: ">>)]
    ELSE [error |-> JStr(<<"Unexpected Error: ">>)]

\* The except clauses of a stage call (lines 262-267 and 319-324) on the
\* exception that left _call_vertex_ai_with_retry.
StageErrorResult(e) ==
    IF e \in GoogleAPIErrors
    THEN [error |-> JStr(<<"Vertex AI API Error: ", e>>)]
    ELSE [error |-> JStr(<<"Unexpected Error: ", e>>)]

\* Lines 233-235 at both call sites.
PrepareFailedResult_OneText(site) ==
    [error |-> JStr(<<"Failed to prepare document parts">>)]

\* The result of a stage call whose parts could not be prepared (lines 233-235
\* and 285-287).
PrepareFailedResult(site) ==
    IF site = "classify"
    THEN [error |-> JStr(<<"Failed to prepare document parts">>)]
    ELSE [error |-> JStr(<<"Failed to prepare document parts for extraction">>)]
\* What a finished future holds: the value its call returned, or the
\* exception that escaped the call.
Returned(d) == [raised |-> FALSE, value |-> d]
Raised(e) == [raised |-> TRUE, exc |-> e]

\* The JSON objects the model may answer a classification request with: a
\* configured type, a type with no fields or no catalog entry, the UNKNOWN
\* sentinel, an object without classified_type, and a classified_type that
\* is a JSON array.
ClassifiedTypeAnswers ==
    {JStr(<<"INVOICE">>), JStr(<<"CRL">>), JStr(<<"UNKNOWN">>),
     JStr(<<"PACKING_LIST">>), JList(<<JStr(<<"INVOICE">>)>>)}

ClassificationAnswers(key) ==
    {[classified_type |-> t, confidence |-> JNum(95),
      reasoning |-> JStr(<<"about ">> \o key[2])] : t \in ClassifiedTypeAnswers}
    \cup {[reasoning |-> JStr(<<"about ">> \o key[2])]}

\* Every way _classify_document_type can end for a group.
ClassifyOutcomes(key) ==
    {Returned(ParseResponse([kind |-> "json", data |-> d])) : d \in ClassificationAnswers(key)}
    \cup {Returned(StageErrorResult("ServiceUnavailable")),
          Raised("KeyError")}

\* A well-formed field object of an extraction answer.
GoodField(name) ==
    JDict([value |-> JStr(<<"value of ", name>>), confidence |-> JNum(90),
           reasoning |-> JStr(<<"seen">>)])

\* The JSON objects the model may answer an extraction request with: every
\* field well formed, or the first field of the catalog given as a bare string.
ExtractionAnswers(fields) ==
    {[f \in Range(fields) |-> GoodField(f)],
     [f \in Range(fields) |-> IF f = fields[1] THEN JStr(<<"n/a">>) ELSE GoodField(f)]}

\* Every way _extract_data_from_document can end for a task.
ExtractOutcomes(task) ==
    {Returned(ParseResponse([kind |-> "json", data |-> d])) :
        d \in ExtractionAnswers(task.fields_to_extract)}
    \cup {Returned(ParseResponse([kind |-> "not_json"])),
          Raised("KeyError")}

\* ------------------------------------------------------------ the rows
Col(name) == <<name>>

\* A row dict from its (column, value) pairs.
RECURSIVE RowOf(_)
RowOf(pairs) ==
    IF pairs = <<>> THEN <<>>
    ELSE (pairs[1][1] :> pairs[1][2]) @@ RowOf(Tail(pairs))

\* Lines 369-373 with the case's own name as the group's name.
PlaceholderRow_NamedAfterCase(case_id) ==
    RowOf(<< <<Col("CASE_ID"), JStr(case_id)>>,
             <<Col("GROUP_Basename"), JStr(case_id)>>,
             <<Col("Processing_Status"), JStr(<<"No processable document files found">>)>> >>)

\* Lines 369-373.
PlaceholderRow(case_id) ==
    RowOf(<< <<Col("CASE_ID"), JStr(case_id)>>,
             <<Col("GROUP_Basename"), JStr(<<"N/A">>)>>,
             <<Col("Processing_Status"), JStr(<<"No processable document files found">>)>> >>)

RECURSIVE PlaceholderRows(_, _)
PlaceholderRows(groups, c) ==
    IF c > Len(groups) THEN <<>>
    ELSE (IF groups[c].groups = <<>> THEN <<PlaceholderRow(groups[c].case_id)>> ELSE <<>>)
         \o PlaceholderRows(groups, c + 1)

\* Lines 483-489 with CLASSIFICATION_Reasoning left None.
ClassifiedColumns_ReasoningDropped(key, classified_type, class_result) ==
    RowOf(<< <<Col("CASE_ID"), JStr(key[1])>>,
             <<Col("GROUP_Basename"), JStr(key[2])>>,
             <<Col("CLASSIFIED_Type"), classified_type>>,
             <<Col("CLASSIFICATION_Confidence"), Get(class_result, "confidence")>>,
             <<Col("CLASSIFICATION_Reasoning"), JNull>> >>)

\* The columns every classified row starts with (lines 424-428, 439-443 and
\* 483-489).
ClassifiedColumns(key, classified_type, class_result) ==
    RowOf(<< <<Col("CASE_ID"), JStr(key[1])>>,
             <<Col("GROUP_Basename"), JStr(key[2])>>,
             <<Col("CLASSIFIED_Type"), classified_type>>,
             <<Col("CLASSIFICATION_Confidence"), Get(class_result, "confidence")>>,
             <<Col("CLASSIFICATION_Reasoning"), Get(class_result, "reasoning")>> >>)

WithStatus(row, status) == (Col("Processing_Status") :> JStr(status)) @@ row

\* Line 434 alone, without the two overrides of lines 435-436.
UnsupportedStatus_NoOverride(classified_type) ==
    <<"Classification result: ">>
        \o (IF Truthy(classified_type) THEN Format(classified_type)
            ELSE <<"Not Classified">>)

\* Lines 434-436.
UnsupportedStatus(classified_type) ==
    IF classified_type = JStr(<<"UNKNOWN">>) THEN <<"Classified as UNKNOWN">>
    ELSE IF Truthy(classified_type)
         THEN <<"Classified as '">> \o Format(classified_type) \o <<"' (Unsupported/Not Configured)">>
         ELSE <<"Classification result: ", "Not Classified">>

\* Lines 448-453.
ClassificationFailedRow(key, class_result) ==
    RowOf(<< <<Col("CASE_ID"), JStr(key[1])>>,
             <<Col("GROUP_Basename"), JStr(key[2])>>,
             <<Col("Processing_Status"),
               JStr(<<"Classification Failed: ">> \o Format(class_result.error))>> >>)
Put(row, col, val) == (col :> val) @@ row

\* Line 498 without the underscore between the two names.
ColumnPrefix_Unseparated(classified_type, field_name) == classified_type \o field_name

\* prefix = f"{classified_type}_{field_name}" (line 498), on the characters
\* of the two names.
ColumnPrefix(classified_type, field_name) == classified_type \o <<"_">> \o field_name

\* f"{prefix}_Value" and the like (lines 500-505).  The underscore is a
\* piece of its own, as it is in ColumnPrefix, so that two column names are
\* the same string exactly when they are the same pieces.
ColumnName(prefix, kind) == prefix \o <<"_", kind>>

\* Lines 494-506 with line 492 inside the loop: a field that is an object
\* sets the status back to "Extraction Successful".
RECURSIVE FlattenFields_ResetsStatus(_, _, _, _)
FlattenFields_ResetsStatus(row_data, classified_type, fields, extraction_result) ==
    IF fields = <<>> THEN row_data
    ELSE LET field_name == Head(fields)
             field_data == Get(extraction_result, field_name)
             prefix == ColumnPrefix(Format(classified_type), Chars(field_name))
             next ==
                 IF field_data.t = "dict"
                 THEN Put(Put(Put(Put(row_data,
                        ColumnName(prefix, "Value"), Get(field_data.v, "value")),
                        ColumnName(prefix, "Confidence"), Get(field_data.v, "confidence")),
                        ColumnName(prefix, "Reasoning"), Get(field_data.v, "reasoning")),
                        Col("Processing_Status"), JStr(<<"Extraction Successful">>))
                 ELSE Put(Put(row_data,
                        ColumnName(prefix, "Raw"), JStr(Format(field_data))),
                        Col("Processing_Status"),
                        JStr(<<"Extraction Partially Successful (Format Issue)">>))
         IN FlattenFields_ResetsStatus(next, classified_type, Tail(fields),
                                       extraction_result)

\* Lines 494-506: the columns of the catalog's fields, one field at a time.
RECURSIVE FlattenFields(_, _, _, _)
FlattenFields(row_data, classified_type, fields, extraction_result) ==
    IF fields = <<>> THEN row_data
    ELSE LET field_name == Head(fields)
             field_data == Get(extraction_result, field_name)
             prefix == ColumnPrefix(Format(classified_type), Chars(field_name))
             next ==
                 IF field_data.t = "dict"
                 THEN Put(Put(Put(row_data,
                        ColumnName(prefix, "Value"), Get(field_data.v, "value")),
                        ColumnName(prefix, "Confidence"), Get(field_data.v, "confidence")),
                        ColumnName(prefix, "Reasoning"), Get(field_data.v, "reasoning"))
                 ELSE Put(Put(row_data,
                        ColumnName(prefix, "Raw"), JStr(Format(field_data))),
                        Col("Processing_Status"),
                        JStr(<<"Extraction Partially Successful (Format Issue)">>))
         IN FlattenFields(next, classified_type, Tail(fields), extraction_result)

\* Lines 478-513: the row of one extraction task.  extraction_result is
\* what extraction_results_map.get(key) gives: a dict, or JNull for None.
AggregatedRow(task, extraction_result, class_result) ==
    LET row_data == ClassifiedColumns(task.key, task.classified_type, class_result)
    IN IF extraction_result # JNull /\ "error" \notin DOMAIN extraction_result
       THEN FlattenFields(WithStatus(row_data, <<"Extraction Successful">>),
                          task.classified_type, task.fields_to_extract,
                          extraction_result)
       ELSE WithStatus(row_data,
                <<"Extraction Failed: ">> \o
                (IF extraction_result = JNull THEN <<"Invalid extraction result">>
                 ELSE Format(extraction_result.error)))

\* ------------------------------------------------- the filter of line 411
IsCatalogKey(classified_type) ==
    /\ classified_type.t = "str"
    /\ \E k \in DOMAIN DOCUMENT_FIELDS : Chars(k) = classified_type.v

CatalogEntry(classified_type) ==
    DOCUMENT_FIELDS[CHOOSE k \in DOMAIN DOCUMENT_FIELDS : Chars(k) = classified_type.v]

\* Line 411 without its comparison with "UNKNOWN".
ReachesCatalogLookup_NoSentinel(classified_type) == Truthy(classified_type)

\* The operands of line 411 that are evaluated before `in DOCUMENT_FIELDS`.
ReachesCatalogLookup(classified_type) ==
    Truthy(classified_type) /\ classified_type # JStr(<<"UNKNOWN">>)

\* `classified_type in DOCUMENT_FIELDS` hashes its left operand.
LookupRaises(classified_type) ==
    ReachesCatalogLookup(classified_type) /\ ~Hashable(classified_type)

\* Line 411 as a whole, when it does not raise.
IsSupportedType(classified_type) ==
    ReachesCatalogLookup(classified_type) /\ IsCatalogKey(classified_type)

\* Line 413 taking every catalog entry, an empty one too.
HasFields_Always(fields_to_extract) == TRUE

\* `if fields_to_extract` (line 413).
HasFields(fields_to_extract) == fields_to_extract # <<>>

\* Line 415 looking the group up with its two keys swapped.
HasDocumentFiles_SwappedKeys(key) ==
    \E c \in DOMAIN initial_groups :
        /\ initial_groups[c].case_id = key[2]
        /\ \E g \in DOMAIN initial_groups[c].groups :
               /\ initial_groups[c].groups[g].base_name = key[1]
               /\ initial_groups[c].groups[g].files # <<>>

\* initial_groups.get(case_id, {}).get(base_name) is a non-empty list (line
\* 415): grouping puts at least one file in every group it creates.
HasDocumentFiles(key) ==
    \E c \in DOMAIN initial_groups :
        /\ initial_groups[c].case_id = key[1]
        /\ \E g \in DOMAIN initial_groups[c].groups :
               /\ initial_groups[c].groups[g].base_name = key[2]
               /\ initial_groups[c].groups[g].files # <<>>
\* ------------------------------------------------------ process_zip_file
NoResult == [pending |-> TRUE]
EmptyMap == [k \in {} |-> NoResult]

\* No stage call is followed step by step.
NoStageCall ==
    /\ stage = "classify"
    /\ rpc = "idle"
    /\ num_retries = 0
    /\ delay = 0
    /\ attempts = <<>>
    /\ sleeps = 0
    /\ last_sleep = [delay |-> 0, actual_delay |-> 0]
    /\ stage_result = NoResult

\* parse_filename_for_grouping is not followed on its own.
NoParse == filename = <<>> /\ parsed = <<>>

\* No request is followed.
NoServer ==
    /\ request = <<>>
    /\ temp_zips = {}
    /\ output_excel = 0
    /\ files = <<>>
    /\ response_file = <<>>
    /\ received = <<>>

\* No column naming is followed on its own.
NoNaming == named = <<>> /\ columns = {}

Init ==
    /\ DOCUMENT_FIELDS \in Catalogs
    /\ MAX_WORKERS \in PoolSizes
    /\ case_folders \in Layouts
    /\ pc = "start"
    /\ exc = "none"
    /\ initial_groups = <<>>
    /\ classification_tasks = <<>>
    /\ cls_state = EmptyMap
    /\ classification_results = <<>>
    /\ extraction_tasks = <<>>
    /\ ext_state = EmptyMap
    /\ extraction_results_map = EmptyMap
    /\ final_results_list = <<>>
    /\ NoStageCall
    /\ NoParse
    /\ NoServer
    /\ NoNaming

\* process_zip_file raises: its frame, with the rows built so far, is gone
\* and the caller gets the exception alone.
RaiseFrom(e) ==
    /\ pc' = "raised"
    /\ exc' = e
    /\ initial_groups' = <<>>
    /\ classification_tasks' = <<>>
    /\ cls_state' = EmptyMap
    /\ classification_results' = <<>>
    /\ extraction_tasks' = <<>>
    /\ ext_state' = EmptyMap
    /\ extraction_results_map' = EmptyMap
    /\ final_results_list' = <<>>

\* Lines 355-393: grouping of every case folder, the placeholder rows of
\* the cases without a group, and the submission of one classification task
\* per group.  A zip without a case folder raises ValueError (line 360).
GroupFiles ==
    /\ pc = "start"
    /\ IF case_folders = <<>>
       THEN /\ pc' = "raised"
            /\ exc' = "ValueError"
            /\ UNCHANGED <<initial_groups, classification_tasks, cls_state,
                           final_results_list>>
       ELSE /\ pc' = "classify"
            /\ exc' = exc
            /\ initial_groups' = InitialGroups(case_folders)
            /\ final_results_list' = PlaceholderRows(InitialGroups(case_folders), 1)
            /\ classification_tasks' = KeysFrom(InitialGroups(case_folders), 1)
            /\ cls_state' =
                   [k \in Range(KeysFrom(InitialGroups(case_folders), 1)) |-> "queued"]
    /\ UNCHANGED <<retryVars, parseVars, nameVars, serverVars, DOCUMENT_FIELDS, MAX_WORKERS, case_folders, classification_results,
                   extraction_tasks, ext_state, extraction_results_map>>

Running(state) == {k \in DOMAIN state : state[k] = "running"}

\* A pool that hands a worker any task whose future was not collected.
IsNextQueued_AnyUncollected(tasks, state, i) ==
    /\ i \in DOMAIN tasks
    /\ state[tasks[i].key] # "collected"

\* The pool's work queue is first in, first out: the task a free worker takes
\* is the first submitted one that no worker has taken.
IsNextQueued(tasks, state, i) ==
    /\ i \in DOMAIN tasks
    /\ state[tasks[i].key] = "queued"
    /\ \A j \in 1..(i - 1) : state[tasks[j].key] # "queued"

\* A pool that starts a thread for every task submitted.
WorkerFree_Always(state) == TRUE

\* A pool that runs one task at a time whatever max_workers is.
WorkerFree_OneAtATime(state) == Running(state) = {}

\* A worker is free to take a task (max_workers of lines 389 and 459).
WorkerFree(state) == Cardinality(Running(state)) < MAX_WORKERS

\* The with block left as soon as the first future has been collected.
PoolDrained_FirstCompleted(state) == \E k \in DOMAIN state : state[k] = "collected"

\* The with block of lines 389-401 and 459-471 ends, after the as_completed
\* loop has seen every future and the pool has shut down.
PoolDrained(state) == \A k \in DOMAIN state : state[k] = "collected"

ClassifyKeys == [i \in DOMAIN classification_tasks |-> [key |-> classification_tasks[i]]]

\* A Classifier worker starts _classify_document_type for the next task.
ClassifyStart(i) ==
    /\ pc = "classify"
    /\ IsNextQueued(ClassifyKeys, cls_state, i)
    /\ WorkerFree(cls_state)
    /\ cls_state' = [cls_state EXCEPT ![classification_tasks[i]] = "running"]
    /\ UNCHANGED <<retryVars, parseVars, nameVars, serverVars, DOCUMENT_FIELDS, MAX_WORKERS, case_folders, pc, exc, initial_groups,
                   classification_tasks, classification_results,
                   extraction_tasks, ext_state, extraction_results_map, final_results_list>>

\* _classify_document_type returns or raises in its worker (lines 223-267).
ClassifyReturn(k) ==
    /\ pc = "classify"
    /\ k \in DOMAIN cls_state
    /\ cls_state[k] = "running"
    /\ cls_state' = [cls_state EXCEPT ![k] = "done"]
    /\ UNCHANGED <<retryVars, parseVars, nameVars, serverVars, DOCUMENT_FIELDS, MAX_WORKERS, case_folders, pc, exc, initial_groups,
                   classification_tasks, classification_results,
                   extraction_tasks, ext_state, extraction_results_map, final_results_list>>

\* What the loops of lines 394-401 and 464-471 store for a finished future.
CollectedResult(future) ==
    IF future.raised
    THEN [error |-> JStr(<<"Task execution failed: ", future.exc>>)]
    ELSE future.value

\* One iteration of the as_completed loop of lines 394-401.
ClassifyCollect(k, outcome) ==
    /\ pc = "classify"
    /\ k \in DOMAIN cls_state
    /\ cls_state[k] = "done"
    /\ cls_state' = [cls_state EXCEPT ![k] = "collected"]
    /\ classification_results' =
           Append(classification_results,
                  [key |-> k, result |-> CollectedResult(outcome)])
    /\ UNCHANGED <<retryVars, parseVars, nameVars, serverVars, DOCUMENT_FIELDS, MAX_WORKERS, case_folders, pc, exc, initial_groups,
                   classification_tasks, extraction_tasks, ext_state, extraction_results_map, final_results_list>>

\* One iteration of the loop of lines 408-453 on an item of
\* classification_results: what it does with the group.
FilterDecision(key, class_result) ==
    IF "error" \notin DOMAIN class_result
    THEN LET classified_type == Get(class_result, "classified_type")
         IN IF LookupRaises(classified_type)
            THEN [kind |-> "raise", exc |-> "TypeError"]
            ELSE IF IsSupportedType(classified_type)
            THEN LET fields_to_extract == CatalogEntry(classified_type)
                 IN IF HasFields(fields_to_extract)
                    THEN IF HasDocumentFiles(key)
                         THEN [kind |-> "task",
                               task |-> [key |-> key,
                                         classified_type |-> classified_type,
                                         fields_to_extract |-> fields_to_extract]]
                         ELSE [kind |-> "logic_error"]
                    ELSE [kind |-> "row",
                          row |-> WithStatus(
                              ClassifiedColumns(key, classified_type, class_result),
                              <<"Extraction skipped - No fields configured">>)]
            ELSE [kind |-> "row",
                  row |-> WithStatus(
                      ClassifiedColumns(key, classified_type, class_result),
                      UnsupportedStatus(classified_type))]
    ELSE [kind |-> "row", row |-> ClassificationFailedRow(key, class_result)]

\* The loop of lines 408-453 from item i on, in the insertion order of
\* classification_results; it stops at the first iteration that raises.
RECURSIVE FilterLoop(_, _, _)
FilterLoop(i, tasks, rows) ==
    IF i > Len(classification_results)
    THEN [exc |-> "none", tasks |-> tasks, rows |-> rows]
    ELSE LET item == classification_results[i]
             decision == FilterDecision(item.key, item.result)
         IN CASE decision.kind = "raise" ->
                    [exc |-> decision.exc, tasks |-> tasks, rows |-> rows]
              [] decision.kind = "task" ->
                    FilterLoop(i + 1, Append(tasks, decision.task), rows)
              [] decision.kind = "row" ->
                    FilterLoop(i + 1, tasks, Append(rows, decision.row))
              [] decision.kind = "logic_error" ->
                    FilterLoop(i + 1, tasks, rows)

\* Lines 401-463: the Classifier pool is left, the loop of line 408 builds
\* the extraction tasks and the rows of the groups that get none, and every
\* extraction task is submitted to the Extractor pool.
PrepareExtraction ==
    /\ pc = "classify"
    /\ PoolDrained(cls_state)
    /\ LET out == FilterLoop(1, <<>>, final_results_list)
           keys == {out.tasks[i].key : i \in DOMAIN out.tasks}
       IN IF out.exc # "none"
          THEN RaiseFrom(out.exc)
          ELSE /\ pc' = "extract"
               /\ final_results_list' = out.rows
               /\ extraction_tasks' = out.tasks
               /\ ext_state' = [k \in keys |-> "queued"]
               /\ UNCHANGED <<exc, initial_groups, classification_tasks,
                              cls_state, classification_results,
                              extraction_results_map>>
    /\ UNCHANGED <<retryVars, parseVars, nameVars, serverVars, DOCUMENT_FIELDS, MAX_WORKERS, case_folders>>

\* An Extractor worker starts _extract_data_from_document for the next task.
ExtractStart(i) ==
    /\ pc = "extract"
    /\ IsNextQueued(extraction_tasks, ext_state, i)
    /\ WorkerFree(ext_state)
    /\ ext_state' = [ext_state EXCEPT ![extraction_tasks[i].key] = "running"]
    /\ UNCHANGED <<retryVars, parseVars, nameVars, serverVars, DOCUMENT_FIELDS, MAX_WORKERS, case_folders, pc, exc, initial_groups,
                   classification_tasks, cls_state, classification_results, extraction_tasks,
                   extraction_results_map,
                   final_results_list>>

\* _extract_data_from_document returns or raises in its worker (lines 271-324).
ExtractReturn(i) ==
    /\ pc = "extract"
    /\ i \in DOMAIN extraction_tasks
    /\ ext_state[extraction_tasks[i].key] = "running"
    /\ ext_state' = [ext_state EXCEPT ![extraction_tasks[i].key] = "done"]
    /\ UNCHANGED <<retryVars, parseVars, nameVars, serverVars, DOCUMENT_FIELDS, MAX_WORKERS, case_folders, pc, exc, initial_groups,
                   classification_tasks, cls_state, classification_results, extraction_tasks,
                   extraction_results_map, final_results_list>>

\* One iteration of the as_completed loop of lines 464-471.
ExtractCollect(k, outcome) ==
    /\ pc = "extract"
    /\ k \in DOMAIN ext_state
    /\ ext_state[k] = "done"
    /\ ext_state' = [ext_state EXCEPT ![k] = "collected"]
    /\ extraction_results_map' =
           (k :> CollectedResult(outcome)) @@ extraction_results_map
    /\ UNCHANGED <<retryVars, parseVars, nameVars, serverVars, DOCUMENT_FIELDS, MAX_WORKERS, case_folders, pc, exc, initial_groups,
                   classification_tasks, cls_state, classification_results, extraction_tasks,
                   final_results_list>>

\* Line 481 taking the result that was stored first, whatever its key.
ClassResultOf_First(key) ==
    IF classification_results = <<>> THEN <<>> ELSE classification_results[1].result

\* classification_results.get(key, {}) of line 481.
ClassResultOf(key) ==
    IF \E i \in DOMAIN classification_results : classification_results[i].key = key
    THEN classification_results[
             CHOOSE i \in DOMAIN classification_results :
                 classification_results[i].key = key].result
    ELSE <<>>

\* extraction_results_map.get(key) of line 480.
ExtractionResultOf(key) ==
    IF key \in DOMAIN extraction_results_map
    THEN extraction_results_map[key] ELSE JNull

\* The loop of lines 477-513 from task i on.
RECURSIVE AggregateLoop(_, _)
AggregateLoop(i, rows) ==
    IF i > Len(extraction_tasks) THEN rows
    ELSE LET task == extraction_tasks[i]
         IN AggregateLoop(i + 1,
                Append(rows, AggregatedRow(task, ExtractionResultOf(task.key),
                                           ClassResultOf(task.key))))

\* Lines 471-516: the Extractor pool is left and the loop of line 477 appends
\* the row of every extraction task; the save step is reached.
AggregateResults ==
    /\ pc = "extract"
    /\ PoolDrained(ext_state)
    /\ final_results_list' = AggregateLoop(1, final_results_list)
    /\ pc' = "save"
    /\ UNCHANGED <<retryVars, parseVars, nameVars, serverVars, DOCUMENT_FIELDS, MAX_WORKERS, case_folders, exc, initial_groups,
                   classification_tasks, cls_state, classification_results, extraction_tasks,
                   ext_state, extraction_results_map>>

\* Lines 516-538: the rows are written to the spreadsheet, or to_excel fails
\* and RuntimeError is raised.
SaveExcel(saved) ==
    /\ pc = "save"
    /\ IF saved
       THEN /\ pc' = "returned"
            /\ UNCHANGED <<exc, initial_groups, classification_tasks,
                           cls_state, classification_results,
                           extraction_tasks, ext_state,
                           extraction_results_map, final_results_list>>
       ELSE RaiseFrom("RuntimeError")
    /\ UNCHANGED <<retryVars, parseVars, nameVars, serverVars, DOCUMENT_FIELDS, MAX_WORKERS, case_folders>>

Next ==
    \/ GroupFiles
    \/ \E i \in DOMAIN classification_tasks : ClassifyStart(i)
    \/ \E k \in DOMAIN cls_state : ClassifyReturn(k)
    \/ \E k \in DOMAIN cls_state : \E o \in ClassifyOutcomes(k) : ClassifyCollect(k, o)
    \/ PrepareExtraction
    \/ \E i \in DOMAIN extraction_tasks : ExtractStart(i)
    \/ \E i \in DOMAIN extraction_tasks : ExtractReturn(i)
    \/ \E i \in DOMAIN extraction_tasks :
           \E o \in ExtractOutcomes(extraction_tasks[i]) :
               ExtractCollect(extraction_tasks[i].key, o)
    \/ AggregateResults
    \/ \E saved \in BOOLEAN : SaveExcel(saved)

Spec == Init /\ [][Next]_vars

\* The steps of the processing phases, from the classification pool on.
NextPhases ==
    \/ \E i \in DOMAIN classification_tasks : ClassifyStart(i)
    \/ \E k \in DOMAIN cls_state : ClassifyReturn(k)
    \/ \E k \in DOMAIN cls_state : \E o \in ClassifyOutcomes(k) : ClassifyCollect(k, o)
    \/ PrepareExtraction
    \/ \E i \in DOMAIN extraction_tasks : ExtractStart(i)
    \/ \E i \in DOMAIN extraction_tasks : ExtractReturn(i)
    \/ \E i \in DOMAIN extraction_tasks :
           \E o \in ExtractOutcomes(extraction_tasks[i]) :
               ExtractCollect(extraction_tasks[i].key, o)
    \/ AggregateResults

\* The same with progress in the processing phases: the threads of the
\* pools are scheduled and every call a worker makes returns or raises, so
\* a step of the phases that can be taken is taken.
SpecFair == Spec /\ WF_vars(NextPhases)
\* ---------------------------------------------------------- one stage call
\* max_retries=5 and initial_delay=1.0 at both call sites (lines 252-253 and
\* 309-310); exponential_base is left at its default (line 67).  Time is
\* counted in quarters of a second.
max_retries == 5
initial_delay == 4
exponential_base == 2

\* Lines 89-94.
retryable_errors ==
    {"ResourceExhausted", "TooManyRequests", "ServiceUnavailable", "DeadlineExceeded"}

\* The exceptions generate_content raises in the model: the four above, a
\* Google API error of another class, and a connection error that is no
\* Google API error.
TransportErrors == retryable_errors \cup {"InvalidArgument", "ConnectionError"}

\* The responses generate_content returns in the model.
TransportResponses ==
    {[kind |-> "json", data |-> [reasoning |-> JStr(<<"answer">>)]],
     [kind |-> "blocked", reason |-> "SAFETY"],
     [kind |-> "empty"],
     [kind |-> "not_json"],
     [kind |-> "bad_json"]}

TransportOutcomes ==
    {[raised |-> TRUE, exc |-> e] : e \in TransportErrors}
    \cup {[raised |-> FALSE, response |-> r] : r \in TransportResponses}

\* Line 101 catching every Google API error.
IsRetryable_AnyGoogleError(e) == e \in GoogleAPIErrors

\* Line 101 with DeadlineExceeded left out of retryable_errors.
IsRetryable_NoDeadline(e) == e \in retryable_errors \ {"DeadlineExceeded"}

\* `except retryable_errors` (line 101) catches the exception.
IsRetryable(e) == e \in retryable_errors

\* Line 103 comparing with >=.
RetriesExceeded_AtMaxRetries(n) == n >= max_retries

\* Line 103, on the incremented num_retries.
RetriesExceeded(n) == n > max_retries

\* Lines 102-117 without the sleep of line 116.
AfterRetryableError_NoSleep(n) == IF n > max_retries THEN "raise" ELSE "call"

\* Lines 102-117: what follows a retryable error, n being the incremented
\* num_retries: the exception is re-raised, or the loop sleeps and calls again.
AfterRetryableError(n) == IF RetriesExceeded(n) THEN "raise" ELSE "sleep"

\* Line 111 adding up to half of the delay.
Jitters_UpToHalf(d) == {0, d \div 2}

\* Line 111: the jitter random.uniform draws for a delay d (its two ends).
Jitters(d) == {0, d \div 4}

\* Line 117 adding the initial delay instead of multiplying.
NextDelay_Linear(d) == d + initial_delay

\* Line 117.
NextDelay(d) == d * exponential_base

InitRetry ==
    /\ DOCUMENT_FIELDS = RealCatalog
    /\ MAX_WORKERS = 1
    /\ case_folders = <<>>
    /\ pc = "start"
    /\ exc = "none"
    /\ initial_groups = <<>>
    /\ classification_tasks = <<>>
    /\ cls_state = EmptyMap
    /\ classification_results = <<>>
    /\ extraction_tasks = <<>>
    /\ ext_state = EmptyMap
    /\ extraction_results_map = EmptyMap
    /\ final_results_list = <<>>
    /\ stage \in {"classify", "extract"}
    /\ rpc = "idle"
    /\ num_retries = 0
    /\ delay = 0
    /\ attempts = <<>>
    /\ sleeps = 0
    /\ last_sleep = [delay |-> 0, actual_delay |-> 0]
    /\ stage_result = NoResult
    /\ NoParse
    /\ NoServer
    /\ NoNaming

\* Lines 228-254 and 276-311: the parts are prepared; if a page cannot be
\* read the stage call returns an error dict, else it enters
\* _call_vertex_ai_with_retry (lines 85-86).
StageStart(readable) ==
    /\ rpc = "idle"
    /\ IF readable
       THEN /\ rpc' = "call"
            /\ num_retries' = 0
            /\ delay' = initial_delay
            /\ stage_result' = stage_result
       ELSE /\ rpc' = "done"
            /\ stage_result' = PrepareFailedResult(stage)
            /\ UNCHANGED <<num_retries, delay>>
    /\ UNCHANGED <<orchVars, parseVars, nameVars, serverVars, stage, attempts, sleeps, last_sleep>>

\* Lines 96-121 with the rest of the stage call: one generate_content call
\* and what its outcome leads to.  A response leaves the loop and is parsed
\* (lines 259-260, 316-317); an exception that is re-raised is turned into an
\* error dict (lines 262-267, 319-324); a retryable error within the budget
\* computes actual_delay and goes to sleep.
Attempt(outcome, jitter) ==
    /\ rpc = "call"
    /\ attempts' = Append(attempts, outcome)
    /\ IF ~outcome.raised
       THEN /\ rpc' = "done"
            /\ stage_result' = ParseResponse(outcome.response)
            /\ UNCHANGED <<num_retries, last_sleep>>
       ELSE IF IsRetryable(outcome.exc)
       THEN /\ num_retries' = num_retries + 1
            /\ IF AfterRetryableError(num_retries + 1) = "raise"
               THEN /\ rpc' = "done"
                    /\ stage_result' = StageErrorResult(outcome.exc)
                    /\ UNCHANGED last_sleep
               ELSE /\ rpc' = AfterRetryableError(num_retries + 1)
                    /\ jitter \in Jitters(delay)
                    /\ last_sleep' = [delay |-> delay, actual_delay |-> delay + jitter]
                    /\ UNCHANGED stage_result
       ELSE /\ rpc' = "done"
            /\ stage_result' = StageErrorResult(outcome.exc)
            /\ UNCHANGED <<num_retries, last_sleep>>
    /\ UNCHANGED <<orchVars, parseVars, nameVars, serverVars, stage, delay, sleeps>>

\* Lines 116-117: time.sleep(actual_delay) returns and the delay grows.
BackoffSleep ==
    /\ rpc = "sleep"
    /\ sleeps' = sleeps + 1
    /\ delay' = NextDelay(delay)
    /\ rpc' = "call"
    /\ UNCHANGED <<orchVars, parseVars, nameVars, serverVars, stage, num_retries, attempts, last_sleep, stage_result>>

NextRetry ==
    \/ \E readable \in BOOLEAN : StageStart(readable)
    \/ \E o \in TransportOutcomes : \E j \in Jitters(delay) : Attempt(o, j)
    \/ BackoffSleep

SpecRetry == InitRetry /\ [][NextRetry]_vars

\* --------------------------------- one group with one stage call followed
\* process_zip_file on a batch of one group, with one of the group's two
\* stage calls (the one `stage` names) followed one generate_content call
\* at a time; the other stage call returns a well-formed answer.
InitGroupCall ==
    /\ DOCUMENT_FIELDS = RealCatalog
    /\ MAX_WORKERS = 1
    /\ case_folders = <<CaseFolder(1, 1)>>
    /\ pc = "start"
    /\ exc = "none"
    /\ initial_groups = <<>>
    /\ classification_tasks = <<>>
    /\ cls_state = EmptyMap
    /\ classification_results = <<>>
    /\ extraction_tasks = <<>>
    /\ ext_state = EmptyMap
    /\ extraction_results_map = EmptyMap
    /\ final_results_list = <<>>
    /\ stage \in {"classify", "extract"}
    /\ rpc = "idle"
    /\ num_retries = 0
    /\ delay = 0
    /\ attempts = <<>>
    /\ sleeps = 0
    /\ last_sleep = [delay |-> 0, actual_delay |-> 0]
    /\ stage_result = NoResult
    /\ NoParse
    /\ NoServer
    /\ NoNaming

\* The worker of the followed stage call is inside the call.
CallRunning ==
    IF stage = "classify" THEN Running(cls_state) # {} ELSE Running(ext_state) # {}

\* The followed stage call has returned, when the site is the followed one.
CallReturned(site) == stage = site => rpc = "done"

\* What the classification future holds: the result of the followed call,
\* or a well-formed INVOICE answer.
ClassifyFuture(key) ==
    IF stage = "classify" THEN Returned(stage_result)
    ELSE Returned(ParseResponse(
             [kind |-> "json",
              data |-> [classified_type |-> JStr(<<"INVOICE">>),
                        confidence |-> JNum(95),
                        reasoning |-> JStr(<<"about ">> \o key[2])]]))

\* What the extraction future holds: the result of the followed call, or an
\* answer with every field well formed.
ExtractFuture(task) ==
    IF stage = "extract" THEN Returned(stage_result)
    ELSE Returned(ParseResponse(
             [kind |-> "json",
              data |-> [f \in Range(task.fields_to_extract) |-> GoodField(f)]]))

NextGroupCall ==
    \/ GroupFiles
    \/ \E i \in DOMAIN classification_tasks : ClassifyStart(i)
    \/ \E k \in DOMAIN cls_state : CallReturned("classify") /\ ClassifyReturn(k)
    \/ \E k \in DOMAIN cls_state : ClassifyCollect(k, ClassifyFuture(k))
    \/ PrepareExtraction
    \/ \E i \in DOMAIN extraction_tasks : ExtractStart(i)
    \/ \E i \in DOMAIN extraction_tasks : CallReturned("extract") /\ ExtractReturn(i)
    \/ \E i \in DOMAIN extraction_tasks :
           ExtractCollect(extraction_tasks[i].key, ExtractFuture(extraction_tasks[i]))
    \/ AggregateResults
    \/ \E saved \in BOOLEAN : SaveExcel(saved)
    \/ \E readable \in BOOLEAN : CallRunning /\ StageStart(readable)
    \/ \E o \in TransportOutcomes : \E j \in Jitters(delay) : CallRunning /\ Attempt(o, j)
    \/ CallRunning /\ BackoffSleep

SpecGroupCall == InitGroupCall /\ [][NextGroupCall]_vars


\* ------------------------------------------- one call of the file name parser
\* The longest file name stem built from single characters.
MaxNameLen == 3

Strings(chars, n) == UNION {[1..k -> chars] : k \in 0..n}

\* process_zip_file is not running.
NoBatch ==
    /\ DOCUMENT_FIELDS = RealCatalog
    /\ MAX_WORKERS = 1
    /\ case_folders = <<>>
    /\ pc = "start"
    /\ exc = "none"
    /\ initial_groups = <<>>
    /\ classification_tasks = <<>>
    /\ cls_state = EmptyMap
    /\ classification_results = <<>>
    /\ extraction_tasks = <<>>
    /\ ext_state = EmptyMap
    /\ extraction_results_map = EmptyMap
    /\ final_results_list = <<>>

\* The names parse_filename_for_grouping is called with: every string of
\* letters, separators, digits and dots up to MaxNameLen, alone and with an
\* extension, and names with the word Page, in several letter cases, before
\* a page number.
PageWords ==
    {<<"P", "a", "g", "e">>, <<"p", "a", "g", "e">>, <<"P", "A", "G", "E">>,
     <<"p", "A", "g", "E">>}

PagedNames ==
    {base \o word \o number \o ext :
        base \in {<<>>, <<"A">>, <<"A", "_">>, <<" ", "A">>, <<"A", "1">>, <<"_">>},
        word \in PageWords,
        number \in {<<"2">>, <<"0", "7">>},
        ext \in {<<>>, <<".", "p", "d", "f">>}}

Filenames ==
    LET stems == Strings({"A", " ", "_", "1", "."}, MaxNameLen)
    IN stems \cup {stem \o <<".", "p", "d", "f">> : stem \in stems} \cup PagedNames

InitParse ==
    /\ NoBatch
    /\ NoStageCall
    /\ filename \in Filenames
    /\ parsed = <<>>
    /\ NoServer
    /\ NoNaming

\* parse_filename_for_grouping(filename) returns.
ParseFilename ==
    /\ parsed = <<>>
    /\ parsed' = parse_filename_for_grouping(filename)
    /\ UNCHANGED <<orchVars, retryVars, nameVars, serverVars, filename>>

SpecParse == InitParse /\ [][ParseFilename]_vars

\* ------------------------------------------- the grouping of one case folder
\* The largest number of entries in the case folder.
MaxFiles == 3

\* The entries the case folder may hold: pages of a document "A" named in
\* several styles (two of them page 1), documents without a page number,
\* files that are no documents, a name that is only an extension, and a
\* sub-directory named like a document.
FolderEntries ==
    {File(<<"A", " ", "1", ".", "p", "d", "f">>),
     File(<<"A", "_", "1", ".", "p", "d", "f">>),
     File(<<"A", " ", "2", ".", "p", "d", "f">>),
     File(<<"A", "3", ".", "P", "N", "G">>),
     File(<<"B", ".", "J", "p", "e", "g">>),
     File(<<"B", " ", "1", ".", "t", "x", "t">>),
     File(<<"A", " ", "4", ".", "p", "d", "f", ".", "b", "a", "k">>),
     File(<<".", "j", "p", "g">>),
     Directory(<<"C", " ", "1", ".", "p", "d", "f">>)}

\* What glob('*') may list: entries with different names, in any order.
Listings ==
    {l \in UNION {[1..n -> FolderEntries] : n \in 0..MaxFiles} :
        \A i, j \in DOMAIN l : l[i] = l[j] => i = j}

InitGroup ==
    /\ DOCUMENT_FIELDS = RealCatalog
    /\ MAX_WORKERS = 1
    /\ case_folders \in {<<[name |-> CaseName(1), listing |-> l]>> : l \in Listings}
    /\ pc = "start"
    /\ exc = "none"
    /\ initial_groups = <<>>
    /\ classification_tasks = <<>>
    /\ cls_state = EmptyMap
    /\ classification_results = <<>>
    /\ extraction_tasks = <<>>
    /\ ext_state = EmptyMap
    /\ extraction_results_map = EmptyMap
    /\ final_results_list = <<>>
    /\ NoStageCall
    /\ NoParse
    /\ NoServer
    /\ NoNaming

\* The run up to the submission of the classification tasks.
SpecGroup == InitGroup /\ [][GroupFiles]_vars

\* ------------------------------------- one group and what the model answers
\* A confidence is a JSON number; the model counts it in hundredths, so that
\* JNum(95) is 0.95 and JNum(150) is 1.5.
\*
\* The classification answers of a batch with one group: every
\* classified_type below with a confidence inside and outside [0, 1], and
\* objects with a key missing or a key too many.
AnyClassifiedTypes ==
    ClassifiedTypeAnswers \cup {JNull, JStr(<<>>), JNum(7)}

AnyClassificationAnswers(key) ==
    LET reasoning == JStr(<<"about ">> \o key[2])
    IN {[classified_type |-> t, confidence |-> c, reasoning |-> reasoning] :
            t \in AnyClassifiedTypes, c \in {JNum(95), JNum(150)}}
       \cup {[confidence |-> JNum(95), reasoning |-> reasoning],
             [classified_type |-> JStr(<<"INVOICE">>), reasoning |-> reasoning],
             [classified_type |-> JStr(<<"INVOICE">>), confidence |-> JNum(95),
              reasoning |-> reasoning, notes |-> JStr(<<"extra">>)]}

\* Every way _classify_document_type can end for the group.
AnyClassifyOutcomes(key) ==
    {Returned(ParseResponse([kind |-> "json", data |-> d])) :
        d \in AnyClassificationAnswers(key)}
    \cup {Returned(ParseResponse([kind |-> "blocked", reason |-> "SAFETY"])),
          Returned(StageErrorResult("ServiceUnavailable")),
          Raised("KeyError")}

\* What an extraction answer may hold for a field: a well-formed object, with
\* a value or with null and confidence 0.0; null with another confidence; an
\* object without "value", without "reasoning" or with a confidence above 1;
\* a bare string.
AnyFieldAnswers(name) ==
    {GoodField(name),
     JDict([value |-> JNull, confidence |-> JNum(0), reasoning |-> JStr(<<"not found">>)]),
     JDict([value |-> JNull, confidence |-> JNum(90), reasoning |-> JStr(<<"not found">>)]),
     JDict([confidence |-> JNum(90), reasoning |-> JStr(<<"seen">>)]),
     JDict([value |-> JStr(<<"value of ", name>>), confidence |-> JNum(90)]),
     JDict([value |-> JStr(<<"value of ", name>>), confidence |-> JNum(150),
            reasoning |-> JStr(<<"seen">>)]),
     JStr(<<"n/a">>)}

\* The extraction answers: each of the above for the first catalog field
\* with the other fields well formed, an answer without the first field, and
\* an answer with a key "error" beside the fields.
AnyExtractionAnswers(fields) ==
    LET others == [f \in Range(Tail(fields)) |-> GoodField(f)]
    IN {(fields[1] :> a) @@ others : a \in AnyFieldAnswers(fields[1])}
       \cup {others,
             ("error" :> JStr(<<"unreadable scan">>)) @@ [f \in Range(fields) |-> GoodField(f)]}

\* Every way _extract_data_from_document can end for the task.
AnyExtractOutcomes(task) ==
    {Returned(ParseResponse([kind |-> "json", data |-> d])) :
        d \in AnyExtractionAnswers(task.fields_to_extract)}
    \cup {Returned(ParseResponse([kind |-> "not_json"])),
          Raised("KeyError")}

InitOneGroup ==
    /\ DOCUMENT_FIELDS \in Catalogs
    /\ MAX_WORKERS = 1
    /\ case_folders = <<CaseFolder(1, 1)>>
    /\ pc = "start"
    /\ exc = "none"
    /\ initial_groups = <<>>
    /\ classification_tasks = <<>>
    /\ cls_state = EmptyMap
    /\ classification_results = <<>>
    /\ extraction_tasks = <<>>
    /\ ext_state = EmptyMap
    /\ extraction_results_map = EmptyMap
    /\ final_results_list = <<>>
    /\ NoStageCall
    /\ NoParse
    /\ NoServer
    /\ NoNaming

NextOneGroup ==
    \/ GroupFiles
    \/ \E i \in DOMAIN classification_tasks : ClassifyStart(i)
    \/ \E k \in DOMAIN cls_state : ClassifyReturn(k)
    \/ \E k \in DOMAIN cls_state : \E o \in AnyClassifyOutcomes(k) : ClassifyCollect(k, o)
    \/ PrepareExtraction
    \/ \E i \in DOMAIN extraction_tasks : ExtractStart(i)
    \/ \E i \in DOMAIN extraction_tasks : ExtractReturn(i)
    \/ \E i \in DOMAIN extraction_tasks :
           \E o \in AnyExtractOutcomes(extraction_tasks[i]) :
               ExtractCollect(extraction_tasks[i].key, o)
    \/ AggregateResults
    \/ \E saved \in BOOLEAN : SaveExcel(saved)

\* process_zip_file on a batch with one case folder and one group in it.
SpecOneGroup == InitOneGroup /\ [][NextOneGroup]_vars

\* ------------------------------------------------ the columns of one field
\* The names of document types and fields: the non-empty strings of a
\* letter and the underscore up to MaxNameLen.
TypeAndFieldNames == Strings({"A", "_"}, MaxNameLen) \ {<<>>}

\* Lines 500-502: the three columns of a field of a document type.
FieldColumns(classified_type, field_name) ==
    {ColumnName(ColumnPrefix(classified_type, field_name), kind) :
        kind \in {"Value", "Confidence", "Reasoning"}}

InitColumns ==
    /\ NoBatch
    /\ NoStageCall
    /\ NoParse
    /\ NoServer
    /\ named \in TypeAndFieldNames \X TypeAndFieldNames
    /\ columns = {}

\* The columns of the field are written to the row (lines 498-502).
NameColumns ==
    /\ columns = {}
    /\ columns' = FieldColumns(named[1], named[2])
    /\ UNCHANGED <<orchVars, retryVars, parseVars, serverVars, named>>

SpecColumns == InitColumns /\ [][NameColumns]_vars

\* ------------------------------------------- a batch of two documents
\* The case folder 'C1' with the pages 'Invoice 1.pdf', 'Invoice 2.pdf' and
\* 'CRL 1.pdf'.
ScenarioCase == <<"C", "1">>
InvoiceBase == <<"I", "n", "v", "o", "i", "c", "e">>
CrlBase == <<"C", "R", "L">>
PageFile(base, digit) == base \o <<" ", digit, ".", "p", "d", "f">>
ScenarioFiles ==
    <<File(PageFile(InvoiceBase, "1")), File(PageFile(InvoiceBase, "2")),
      File(PageFile(CrlBase, "1"))>>

\* glob('*') (line 205) lists the entries of a folder in an arbitrary order.
GlobOrders(entries) ==
    {[i \in DOMAIN entries |-> entries[f[i]]] :
        f \in {g \in [DOMAIN entries -> DOMAIN entries] :
                  \A i, j \in DOMAIN entries : g[i] = g[j] => i = j}}

\* The classifier answers INVOICE (0.95) for the group 'Invoice' and UNKNOWN
\* (0.40) for the group 'CRL'.
ScenarioClassifyOutcomes(key) ==
    {Returned(ParseResponse(
        [kind |-> "json",
         data |-> [classified_type |-> IF key[2] = InvoiceBase
                                       THEN JStr(<<"INVOICE">>) ELSE JStr(<<"UNKNOWN">>),
                   confidence |-> IF key[2] = InvoiceBase THEN JNum(95) ELSE JNum(40),
                   reasoning |-> JStr(<<"about ">> \o key[2])]]))}

\* The extractor answers with every field of the catalog well formed.
ScenarioExtractOutcomes(task) ==
    {Returned(ParseResponse(
        [kind |-> "json",
         data |-> [f \in Range(task.fields_to_extract) |-> GoodField(f)]]))}

InitScenario ==
    /\ DOCUMENT_FIELDS = RealCatalog
    /\ MAX_WORKERS \in PoolSizes
    /\ \E listing \in GlobOrders(ScenarioFiles) :
           case_folders = <<[name |-> ScenarioCase, listing |-> listing]>>
    /\ pc = "start"
    /\ exc = "none"
    /\ initial_groups = <<>>
    /\ classification_tasks = <<>>
    /\ cls_state = EmptyMap
    /\ classification_results = <<>>
    /\ extraction_tasks = <<>>
    /\ ext_state = EmptyMap
    /\ extraction_results_map = EmptyMap
    /\ final_results_list = <<>>
    /\ NoStageCall
    /\ NoParse
    /\ NoServer
    /\ NoNaming

NextScenario ==
    \/ GroupFiles
    \/ \E i \in DOMAIN classification_tasks : ClassifyStart(i)
    \/ \E k \in DOMAIN cls_state : ClassifyReturn(k)
    \/ \E k \in DOMAIN cls_state : \E o \in ScenarioClassifyOutcomes(k) : ClassifyCollect(k, o)
    \/ PrepareExtraction
    \/ \E i \in DOMAIN extraction_tasks : ExtractStart(i)
    \/ \E i \in DOMAIN extraction_tasks : ExtractReturn(i)
    \/ \E i \in DOMAIN extraction_tasks :
           \E o \in ScenarioExtractOutcomes(extraction_tasks[i]) :
               ExtractCollect(extraction_tasks[i].key, o)
    \/ AggregateResults
    \/ \E saved \in BOOLEAN : SaveExcel(saved)

\* process_zip_file on the batch of the two documents.
SpecScenario == InitScenario /\ [][NextScenario]_vars

\* ------------------------------------------- the server of main.py
\* The requests followed, and the chunks in which a response file is sent.
NumRequests == 2
NumChunks == 2
Requests == 1..NumRequests

\* What process_zip_file does to the handler that called it: it returns the
\* path of the spreadsheet, or raises (ValueError for a bad zip, RuntimeError
\* when the spreadsheet cannot be saved, anything else from the phases).
ProcessOutcomes == {"returned", "ValueError", "RuntimeError", "TypeError"}

InitServer ==
    /\ DOCUMENT_FIELDS = RealCatalog
    /\ MAX_WORKERS = 1
    /\ case_folders = <<>>
    /\ pc = "start"
    /\ exc = "none"
    /\ initial_groups = <<>>
    /\ classification_tasks = <<>>
    /\ cls_state = EmptyMap
    /\ classification_results = <<>>
    /\ extraction_tasks = <<>>
    /\ ext_state = EmptyMap
    /\ extraction_results_map = EmptyMap
    /\ final_results_list = <<>>
    /\ NoStageCall
    /\ NoParse
    /\ NoNaming
    /\ request = [r \in Requests |-> "new"]
    /\ temp_zips = {}
    /\ output_excel = 0
    /\ files = <<>>
    /\ response_file = [r \in Requests |-> 0]
    /\ received = [r \in Requests |-> <<>>]

\* df.to_excel(output_excel_path) for the rows of request r (processing.py
\* lines 337 and 533): the one path OUTPUT_FILENAME is opened for writing,
\* which replaces the content of the file when there is one and creates the
\* file when there is none.
ToExcel(r) ==
    IF output_excel # 0
    THEN /\ files' = [files EXCEPT ![output_excel] = r]
         /\ UNCHANGED output_excel
    ELSE /\ files' = Append(files, r)
         /\ output_excel' = Len(files) + 1

\* create_upload_file up to `await file.close()` (main.py lines 35-56): a
\* name that does not end in ".zip" is refused with status 400, and the
\* upload is copied to a temporary file of its own under TEMP_DIR.
ReceiveUpload(r, is_zip) ==
    /\ request[r] = "new"
    /\ IF is_zip
       THEN /\ request' = [request EXCEPT ![r] = "uploaded"]
            /\ temp_zips' = temp_zips \cup {r}
       ELSE /\ request' = [request EXCEPT ![r] = "refused"]
            /\ UNCHANGED temp_zips
    /\ UNCHANGED <<orchVars, retryVars, parseVars, nameVars, output_excel, files,
                   response_file, received>>

\* create_upload_file from line 59 on: process_zip_file runs to its end
\* inside the handler, which then returns a FileResponse on the path it got
\* with the two clean-ups as background tasks (lines 62-75), or answers
\* with an HTTPException (lines 77-88).
ProcessUpload(r, outcome) ==
    /\ request[r] = "uploaded"
    /\ CASE outcome = "returned" ->
                /\ ToExcel(r)
                /\ request' = [request EXCEPT ![r] = "responding"]
         [] outcome = "RuntimeError" ->
                \* to_excel failed: the file may have been opened and emptied
                /\ \/ UNCHANGED <<output_excel, files>>
                   \/ ToExcel(0)
                /\ request' = [request EXCEPT ![r] = "failed"]
         [] OTHER ->
                /\ UNCHANGED <<output_excel, files>>
                /\ request' = [request EXCEPT ![r] = "failed"]
    /\ UNCHANGED <<orchVars, retryVars, parseVars, nameVars, temp_zips,
                   response_file, received>>

\* The FileResponse starts: it looks the path up and opens the file; with
\* no file at the path the response fails and its background tasks are
\* not run.
OpenResponse(r) ==
    /\ request[r] = "responding"
    /\ IF output_excel # 0
       THEN /\ response_file' = [response_file EXCEPT ![r] = output_excel]
            /\ request' = [request EXCEPT ![r] = "sending"]
       ELSE /\ request' = [request EXCEPT ![r] = "send_failed"]
            /\ UNCHANGED response_file
    /\ UNCHANGED <<orchVars, retryVars, parseVars, nameVars, temp_zips,
                   output_excel, files, received>>

\* The FileResponse sends the next chunk of the file it has opened, as the
\* file is when the chunk is read; after the last chunk the response is sent.
SendChunk(r) ==
    /\ request[r] = "sending"
    /\ received' = [received EXCEPT ![r] = Append(@, files[response_file[r]])]
    /\ request' = [request EXCEPT ![r] =
                       IF Len(received[r]) + 1 = NumChunks THEN "sent" ELSE "sending"]
    /\ UNCHANGED <<orchVars, retryVars, parseVars, nameVars, temp_zips,
                   output_excel, files, response_file>>

\* cleanup_file(output_excel_path), the first background task of a response
\* that was sent (main.py lines 20-26 and 66): the file at the path is
\* removed; with no file there the OSError is logged.
CleanupOutput(r) ==
    /\ request[r] = "sent"
    /\ output_excel' = 0
    /\ request' = [request EXCEPT ![r] = "output_cleaned"]
    /\ UNCHANGED <<orchVars, retryVars, parseVars, nameVars, temp_zips, files,
                   response_file, received>>

\* cleanup_file(temp_zip_path): the second background task of a response
\* that was sent (line 68), and the task added before an HTTPException is
\* raised (lines 79, 83 and 87), which the server may run.
CleanupZip(r) ==
    /\ request[r] \in {"output_cleaned", "failed"}
    /\ r \in temp_zips
    /\ temp_zips' = temp_zips \ {r}
    /\ request' = [request EXCEPT ![r] =
                       IF request[r] = "failed" THEN "failed" ELSE "done"]
    /\ UNCHANGED <<orchVars, retryVars, parseVars, nameVars, output_excel, files,
                   response_file, received>>

NextServer ==
    \E r \in Requests :
        \/ \E is_zip \in BOOLEAN : ReceiveUpload(r, is_zip)
        \/ \E outcome \in ProcessOutcomes : ProcessUpload(r, outcome)
        \/ OpenResponse(r)
        \/ SendChunk(r)
        \/ CleanupOutput(r)
        \/ CleanupZip(r)

SpecServer == InitServer /\ [][NextServer]_vars

\* ------------------------------------------- properties of process_zip_file
\* The groups of the batch, as _group_files_by_base_name finds them.
GroupKeys == Range(KeysFrom(InitialGroups(case_folders), 1))

\* The case folders in which no group was found.
EmptyCases ==
    {c \in DOMAIN case_folders : InitialGroups(case_folders)[c].groups = <<>>}

\* The rows of final_results_list that carry a group's key.
RowsFor(key) ==
    {i \in DOMAIN final_results_list :
        /\ final_results_list[i][Col("CASE_ID")] = JStr(key[1])
        /\ final_results_list[i][Col("GROUP_Basename")] = JStr(key[2])}

\* process_zip_file has run to its end: the rows are complete, or it raised
\* out of the loop that decides what each group gets.
RunEnded == pc \in {"save", "returned"} \/ (pc = "raised" /\ exc = "TypeError")

\* C1: when the run has ended, every group key of the batch appears in
\* exactly one row of final_results_list, whatever the outcomes of the
\* groups' stage calls were.
C1_OneRowPerGroup ==
    RunEnded => \A key \in GroupKeys : Cardinality(RowsFor(key)) = 1

\* C2, as stated: at the save step final_results_list has as many rows as
\* there are groups.
C2_RowsEqualGroups ==
    pc = "save" => Len(final_results_list) = Cardinality(GroupKeys)

\* C2, amended: at the save step final_results_list has one row per group
\* and one placeholder row per case folder in which no group was found.
C2_RowsEqualGroupsPlusEmptyCases ==
    pc = "save" =>
        Len(final_results_list) = Cardinality(GroupKeys) + Cardinality(EmptyCases)

\* The save step of a batch with an empty case folder and a folder whose
\* group went through extraction.
C2_Witness ==
    /\ pc = "save"
    /\ EmptyCases # {}
    /\ GroupKeys # {}
    /\ extraction_tasks # <<>>

\* C3: no outcome of a group's stage call aborts the batch: process_zip_file
\* raises only for a zip without case folders or a spreadsheet that cannot be
\* written.
C3_NoGroupAbortsBatch ==
    pc = "raised" => exc \in {"ValueError", "RuntimeError"}

\* The groups whose collected classification result satisfies P.
ClassifiedWith(P(_)) ==
    {classification_results[i].key :
        i \in {j \in DOMAIN classification_results : P(classification_results[j].result)}}

IsUnknownResult(result) ==
    /\ "error" \notin DOMAIN result
    /\ Get(result, "classified_type") = JStr(<<"UNKNOWN">>)

\* The groups handed to the Extractor pool.
Submitted == DOMAIN ext_state

\* C4: a group classified as "UNKNOWN" is never among the extraction tasks
\* nor handed to the Extractor pool, whatever the catalog holds.
C4_UnknownNeverExtracted ==
    \A key \in ClassifiedWith(IsUnknownResult) :
        /\ key \notin Submitted
        /\ \A i \in DOMAIN extraction_tasks : extraction_tasks[i].key # key

\* The catalog has a non-empty "UNKNOWN" entry, a group was classified as
\* UNKNOWN and an extraction call of another group is running.
C4_Witness ==
    /\ pc = "extract"
    /\ "UNKNOWN" \in DOMAIN DOCUMENT_FIELDS
    /\ DOCUMENT_FIELDS["UNKNOWN"] # <<>>
    /\ ClassifiedWith(IsUnknownResult) # {}
    /\ Running(ext_state) # {}

\* The condition of C5 on a classification result: it is a success and its
\* classified type is a key of the catalog with a non-empty entry.
IsConfiguredResult(result) ==
    /\ "error" \notin DOMAIN result
    /\ Get(result, "classified_type").t = "str"
    /\ \E k \in DOMAIN DOCUMENT_FIELDS :
           /\ <<k>> = Get(result, "classified_type").v
           /\ DOCUMENT_FIELDS[k] # <<>>

IsConfiguredKnownResult(result) ==
    IsConfiguredResult(result) /\ ~IsUnknownResult(result)

\* The extraction tasks name each group at most once.
NoTaskTwice ==
    \A i, j \in DOMAIN extraction_tasks :
        extraction_tasks[i].key = extraction_tasks[j].key => i = j

ExtractionSubmitted == pc \in {"extract", "save", "returned"}

\* C5, as stated: once the extraction tasks are submitted, the groups
\* submitted are exactly those whose classification succeeded with a type
\* that is a key of the catalog with a non-empty entry, each once.
C5_SubmittedAreConfigured ==
    ExtractionSubmitted =>
        /\ Submitted = ClassifiedWith(IsConfiguredResult)
        /\ NoTaskTwice

\* C5, amended: once the extraction tasks are submitted, the groups
\* submitted are exactly those whose classification succeeded with a type
\* other than "UNKNOWN" that is a key of the catalog with a non-empty entry,
\* each once.
C5_SubmittedAreConfiguredAndKnown ==
    ExtractionSubmitted =>
        /\ Submitted = ClassifiedWith(IsConfiguredKnownResult)
        /\ {extraction_tasks[i].key : i \in DOMAIN extraction_tasks} = Submitted
        /\ NoTaskTwice

\* The rows are complete for a batch in which one group was extracted and
\* another was classified as UNKNOWN under a catalog with an "UNKNOWN" entry.
C5_Witness ==
    /\ pc = "save"
    /\ Len(extraction_tasks) = 1
    /\ ClassifiedWith(IsConfiguredResult) # ClassifiedWith(IsConfiguredKnownResult)

\* The groups whose extraction call has been started.
ExtractionStarted == {k \in DOMAIN ext_state : ext_state[k] # "queued"}

\* The groups whose classification call has not returned yet.
ClassificationPending == {g \in DOMAIN cls_state : cls_state[g] \in {"queued", "running"}}

\* C6: no extraction call has started while a classification call of any
\* group is still waiting or running.
C6_PhaseBarrier ==
    ExtractionStarted # {} => ClassificationPending = {}

\* An extraction call runs in a batch of two groups.
C6_Witness ==
    /\ Running(ext_state) # {}
    /\ Cardinality(DOMAIN cls_state) >= 2
    /\ \A g \in DOMAIN cls_state : cls_state[g] = "collected"

\* ------------------------------------------------ properties of a stage call
\* The transient kinds of the specification: rate limiting, service
\* unavailable, deadline exceeded and a generic connection failure.
TransientKinds ==
    {"ResourceExhausted", "TooManyRequests", "ServiceUnavailable",
     "DeadlineExceeded", "ConnectionError"}

\* The transient kinds without the generic connection failure.
TransientClasses == TransientKinds \ {"ConnectionError"}

IsTransientFailure(outcome, kinds) == outcome.raised /\ outcome.exc \in kinds

\* Every call of the stage call so far failed with an error of the kinds.
AllFailedWith(kinds) ==
    /\ attempts # <<>>
    /\ \A i \in DOMAIN attempts : IsTransientFailure(attempts[i], kinds)

\* C7, as stated: a stage call whose every generate_content call fails with
\* a retryable error ends as a failure after exactly max_retries calls.
C7_ExhaustedAfterMaxRetriesCalls ==
    (rpc = "done" /\ AllFailedWith(TransientClasses)) =>
        /\ Len(attempts) = max_retries
        /\ "error" \in DOMAIN stage_result

\* C7, amended: a stage call whose every generate_content call fails with a
\* retryable error ends as a failure after exactly max_retries + 1 calls,
\* with a sleep between two calls and none after the last.
C7_ExhaustedAfterMaxRetriesPlusOneCalls ==
    (rpc = "done" /\ AllFailedWith(TransientClasses)) =>
        /\ Len(attempts) = max_retries + 1
        /\ sleeps = max_retries
        /\ "error" \in DOMAIN stage_result

\* A stage call ended by retryable errors alone.
C7_Witness ==
    /\ rpc = "done"
    /\ AllFailedWith(TransientClasses)
    /\ stage_result = StageErrorResult(attempts[Len(attempts)].exc)

\* C8: a call that returns a response is the last call of its stage call:
\* when it is call k, after k - 1 retryable failures, the stage call has
\* ended with that response's parse, k calls and k - 1 sleeps.
C8_SuccessOnAttemptK ==
    \A k \in DOMAIN attempts :
        ~attempts[k].raised =>
            /\ \A i \in 1..(k - 1) : IsTransientFailure(attempts[i], TransientClasses)
            /\ Len(attempts) = k
            /\ sleeps = k - 1
            /\ rpc = "done"
            /\ stage_result = ParseResponse(attempts[k].response)

\* A JSON response on the third call, after two retryable failures.
C8_Witness ==
    /\ Len(attempts) = 3
    /\ ~attempts[3].raised
    /\ attempts[3].response.kind = "json"
    /\ rpc = "done"

\* A terminal outcome of a generate_content call: an exception of no
\* transient kind, or a response that is blocked or is not a JSON object.
IsTerminalOutcome(outcome) ==
    IF outcome.raised
    THEN outcome.exc \notin TransientKinds
    ELSE outcome.response.kind \in {"blocked", "not_json", "bad_json"}

\* C9: a call with a terminal outcome is the last call of its stage call,
\* which has ended as a failure with no sleep after that call; when it is
\* the first call, there was exactly one call and no sleep.
C9_TerminalNeverRetried ==
    \A k \in DOMAIN attempts :
        IsTerminalOutcome(attempts[k]) =>
            /\ Len(attempts) = k
            /\ sleeps = k - 1
            /\ rpc = "done"
            /\ "error" \in DOMAIN stage_result

\* The first call raised an exception of no transient kind.
C9_Witness ==
    /\ Len(attempts) = 1
    /\ attempts[1].raised
    /\ IsTerminalOutcome(attempts[1])
    /\ sleeps = 0

\* Call k failed with an error of the kinds while a retry remained, and the
\* stage call goes on: it sleeps, or calls again, or has called again.
RetriedWhileBudgetRemains(kinds) ==
    \A k \in DOMAIN attempts :
        (IsTransientFailure(attempts[k], kinds) /\ k <= max_retries) =>
            (k < Len(attempts) \/ rpc \in {"sleep", "call"})

\* C10, as stated: a failure of any transient kind, the generic connection
\* failure included, is retried while a retry remains.
C10_EveryTransientKindRetried == RetriedWhileBudgetRemains(TransientKinds)

\* C10, amended: a failure of a class of retryable_errors is retried while a
\* retry remains, and a generic connection failure ends the stage call as a
\* failure at once.
C10_RetryableClassesRetried ==
    /\ RetriedWhileBudgetRemains(TransientClasses)
    /\ \A k \in DOMAIN attempts :
           IsTransientFailure(attempts[k], {"ConnectionError"}) =>
               /\ Len(attempts) = k
               /\ rpc = "done"
               /\ "error" \in DOMAIN stage_result

\* Each of the four retryable classes has been retried in one stage call.
C10_Witness ==
    /\ Len(attempts) = 5
    /\ \A e \in TransientClasses :
           \E k \in 1..4 : IsTransientFailure(attempts[k], {e})

\* ------------------------------------ properties of the file name parser
\* The ways to read a file name as <base><sep><N>.<ext>: a non-empty base,
\* a separator (a space, an underscore or the word Page in any letter
\* case), a non-empty string of digits, a dot and an extension without a dot.
Decompositions(name) ==
    LET dot == LastIndexOf(name, ".")
    IN {[base |-> SubSeq(name, 1, i), sep |-> SubSeq(name, i + 1, j),
         number |-> SubSeq(name, j + 1, dot - 1)] :
            <<i, j>> \in {ij \in (1..Len(name)) \X (1..Len(name)) :
                /\ dot > 0
                /\ ij[1] < ij[2] /\ ij[2] < dot - 1
                /\ LowerStr(SubSeq(name, ij[1] + 1, ij[2])) \in
                       {<<" ">>, <<"_">>, <<"p", "a", "g", "e">>}
                /\ \A k \in (ij[2] + 1)..(dot - 1) : name[k] \in Digits}}

\* The name without its extension, and whether it ends in a digit.
StemOf(name) ==
    IF LastIndexOf(name, ".") = 0 THEN name
    ELSE SubSeq(name, 1, LastIndexOf(name, ".") - 1)

EndsInDigit(s) == s # <<>> /\ s[Len(s)] \in Digits

\* C16, as stated: the parser returns (base, N) for a name of the form
\* <base><sep><N>.<ext>, and (name without extension, 1) for a name whose
\* stem does not end in a digit.
C16_ParsesBaseAndPage ==
    parsed # <<>> =>
        /\ \A d \in Decompositions(filename) : parsed = <<d.base, IntOf(d.number)>>
        /\ ~EndsInDigit(StemOf(filename)) => parsed = <<StemOf(filename), 1>>

\* C16, amended: for a name of the form <base><sep><N>.<ext> the parser
\* returns the base without its leading and trailing spaces and underscores,
\* or "unknown_doc" when nothing is left of it, with the page N; for a name
\* whose stem does not end in a digit it returns the stem, or "unknown_doc"
\* for an empty stem, with the page 1.
C16_ParsesTrimmedBaseAndPage ==
    parsed # <<>> =>
        /\ \A d \in Decompositions(filename) :
               parsed = <<IF StripSeparators(d.base) = <<>> THEN <<"unknown_doc">>
                          ELSE StripSeparators(d.base),
                          IntOf(d.number)>>
        /\ ~EndsInDigit(StemOf(filename)) =>
               parsed = <<IF StemOf(filename) = <<>> THEN <<"unknown_doc">>
                          ELSE StemOf(filename), 1>>

\* "A_pAgE07.pdf" was parsed: base "A_", the word Page, page 7.
C16_Witness ==
    /\ filename = <<"A", "_", "p", "A", "g", "E", "0", "7", ".", "p", "d", "f">>
    /\ parsed = << <<"A">>, 7 >>

\* C18: the parser returns, for every file name, a pair of a non-empty base
\* name and a page number.
C18_BaseNameNeverEmpty ==
    parsed # <<>> =>
        /\ Len(parsed) = 2
        /\ parsed[1] # <<>>
        /\ parsed[2] \in Nat

\* A name made of separators and a digit was parsed, and so was the empty
\* name: nothing is left for the base name.
C18_Witness ==
    /\ parsed # <<>>
    /\ filename \in {<<"_", " ", "1">>, <<>>, <<".", "p", "d", "f">>}
    /\ parsed[1] = <<"unknown_doc">>

\* --------------------------------------------- properties of the grouping
\* The groups of the case folder of SpecGroup, once grouping is done.
Grouped == pc = "classify" /\ Len(initial_groups) = 1
FolderListing == case_folders[1].listing
FolderGroups == initial_groups[1].groups

\* Every order in which the entries of a listing can be listed.
Orderings(listing) ==
    {[i \in DOMAIN listing |-> listing[f[i]]] :
        f \in {g \in [DOMAIN listing -> DOMAIN listing] :
                  \A i, j \in DOMAIN listing : g[i] = g[j] => i = j}}

\* A dict of groups without the order of its keys.
AsDict(groups) == {<<groups[g].base_name, groups[g].files>> : g \in DOMAIN groups}

\* The same, with each group's files as a set and its pages as a sequence.
AsPages(groups) ==
    {<<groups[g].base_name, Range(groups[g].files),
       [i \in DOMAIN groups[g].files |-> groups[g].files[i].page]>> : g \in DOMAIN groups}

PagesAscend(groups) ==
    \A g \in DOMAIN groups : \A i, j \in DOMAIN groups[g].files :
        i < j => groups[g].files[i].page <= groups[g].files[j].page

\* Position of the entry named name in a listing.
ListedAt(listing, name) == CHOOSE i \in DOMAIN listing : listing[i].name = name

\* Files of a group with the same page number are in the order of the listing.
TiesInListingOrder(listing, groups) ==
    \A g \in DOMAIN groups : \A i, j \in DOMAIN groups[g].files :
        (i < j /\ groups[g].files[i].page = groups[g].files[j].page) =>
            ListedAt(listing, groups[g].files[i].path)
                < ListedAt(listing, groups[g].files[j].path)

\* C17, as stated: every ordering of the folder's entries gives the same
\* groups with the same sequence of files in each, in ascending page order.
C17_SameGroupsInAnyOrder ==
    Grouped =>
        /\ PagesAscend(FolderGroups)
        /\ \A l \in Orderings(FolderListing) :
               AsDict(group_files_by_base_name(l)) = AsDict(FolderGroups)

\* C17, amended: every ordering of the folder's entries gives the same
\* groups with the same files and the same sequence of page numbers in each,
\* in ascending page order; files of a group that have the same page number
\* are in the order of the listing.
C17_SameGroupsAndPagesInAnyOrder ==
    Grouped =>
        /\ PagesAscend(FolderGroups)
        /\ TiesInListingOrder(FolderListing, FolderGroups)
        /\ \A l \in Orderings(FolderListing) :
               AsPages(group_files_by_base_name(l)) = AsPages(FolderGroups)

\* A folder listed as "A 2.pdf", "A_1.pdf", "A 1.pdf" was grouped: one group
\* with two files of page 1 before the file of page 2.
C17_Witness ==
    /\ Grouped
    /\ Len(FolderGroups) = 1
    /\ Len(FolderListing) = 3
    /\ FolderListing[1].name = <<"A", " ", "2", ".", "p", "d", "f">>
    /\ Len(FolderGroups[1].files) = 3
    /\ [i \in 1..3 |-> FolderGroups[1].files[i].page] = <<1, 1, 2>>

\* The extension of a name: its last dot and what follows, in lower case.
ExtensionOf(name) ==
    IF LastIndexOf(name, ".") = 0 THEN <<>>
    ELSE LowerStr(SubSeq(name, LastIndexOf(name, "."), Len(name)))

IsDocumentEntry(entry) ==
    entry.is_file /\ ExtensionOf(entry.name) \in Range(SUPPORTED_FILE_EXTENSIONS)

\* The places (group, position) at which a name is a page.
PagesOf(groups, name) ==
    {at \in UNION {{g} \X DOMAIN groups[g].files : g \in DOMAIN groups} :
        groups[at[1]].files[at[2]].path = name}

\* C19: every regular file of the folder with a supported extension, in any
\* letter case, is a page of exactly one group, and every other entry is a
\* page of none.
C19_SupportedFilesGroupedOnce ==
    Grouped =>
        \A e \in DOMAIN FolderListing :
            Cardinality(PagesOf(FolderGroups, FolderListing[e].name))
                = IF IsDocumentEntry(FolderListing[e]) THEN 1 ELSE 0

\* A folder with a file whose extension is in upper case, a text file and a
\* sub-directory named like a document was grouped.
C19_Witness ==
    /\ Grouped
    /\ Range(FolderListing) =
           {File(<<"A", "3", ".", "P", "N", "G">>),
            File(<<"B", " ", "1", ".", "t", "x", "t">>),
            Directory(<<"C", " ", "1", ".", "p", "d", "f">>)}
    /\ Len(FolderGroups) = 1

\* ------------------------------------------ properties of the column names
\* The pairs (type, field) other than the one named whose columns share a
\* name with the columns built.
CollidingPairs ==
    {other \in TypeAndFieldNames \X TypeAndFieldNames :
        other # named /\ FieldColumns(other[1], other[2]) \cap columns # {}}

HasUnderscore(name) == \E i \in DOMAIN name : name[i] = "_"

\* C15, as stated: no other pair (type, field) maps to a column name of the
\* pair named, whatever characters the names are made of.
C15_ColumnNamesNeverCollide == columns # {} => CollidingPairs = {}

\* C15, amended: no other pair maps to a column name of the pair named when
\* it has the same type name, or when neither type name has an underscore.
C15_ColumnNamesCollideOnlyByTypeUnderscores ==
    columns # {} =>
        \A other \in CollidingPairs :
            /\ other[1] # named[1]
            /\ HasUnderscore(other[1]) \/ HasUnderscore(named[1])

\* The columns of field "A_A" of type "A" were built; those of field "A" of
\* type "A_A" have the same names.
C15_Witness ==
    /\ named = << <<"A">>, <<"A", "_", "A">> >>
    /\ columns # {}
    /\ << <<"A", "_", "A">>, <<"A">> >> \in CollidingPairs

\* ------------------------------------------------ properties of the statuses
\* The rows of final_results_list that belong to a group.
GroupRows == UNION {RowsFor(key) : key \in GroupKeys}

StatusOf(i) == final_results_list[i][Col("Processing_Status")].v

StartsWith(s, piece) == s # <<>> /\ s[1] = piece

\* Whether a status has each of the seven forms of the specification, the
\* first of them spelled with the given prefix.
SevenForms(s, failed_prefix) ==
    << StartsWith(s, failed_prefix),
       s = <<"Classified as UNKNOWN">>,
       StartsWith(s, "Classified as '") /\ s[Len(s)] = "' (Unsupported/Not Configured)",
       s = <<"Extraction skipped - No fields configured">>,
       s = <<"Extraction Successful">>,
       s = <<"Extraction Partially Successful (Format Issue)">>,
       StartsWith(s, "Extraction Failed: ") >>

IsNotClassifiedStatus(s) == s = <<"Classification result: ", "Not Classified">>

CountTrue(tests) == Cardinality({i \in DOMAIN tests : tests[i]})

\* C11, as stated: the status of every row of a group has exactly one of
\* the seven forms, the first being "ClassificationFailed: <detail>".
C11_StatusIsOneOfSevenForms ==
    \A i \in GroupRows :
        CountTrue(SevenForms(StatusOf(i), "ClassificationFailed: ")) = 1

\* C11, amended: the status of every row of a group has exactly one of
\* eight forms: the seven, the first being spelled "Classification Failed:
\* <detail>", and "Classification result: Not Classified".
C11_StatusIsOneOfEightForms ==
    \A i \in GroupRows :
        CountTrue(SevenForms(StatusOf(i), "Classification Failed: ")
                  \o <<IsNotClassifiedStatus(StatusOf(i))>>) = 1

\* The group's answer had an empty classified_type and its row says that it
\* was not classified.
C11_Witness ==
    /\ pc = "save"
    /\ \E j \in DOMAIN classification_results :
           /\ "error" \notin DOMAIN classification_results[j].result
           /\ Get(classification_results[j].result, "classified_type") = JStr(<<>>)
    /\ \E i \in GroupRows : IsNotClassifiedStatus(StatusOf(i))

\* A confidence of the schema: a number from 0.0 to 1.0.
IsConfidence(j) == j.t = "num" /\ j.v \in 0..100

\* A classification result that the parser returned as an answer and that
\* is not of the schema: other keys than the three, a confidence out of
\* range, or a type that is neither a catalog key nor "UNKNOWN".
DeviatesFromSchema(result) ==
    /\ "error" \notin DOMAIN result
    /\ \/ DOMAIN result # {"classified_type", "confidence", "reasoning"}
       \/ ~IsConfidence(Get(result, "confidence"))
       \/ Get(result, "classified_type").t # "str"
       \/ /\ Get(result, "classified_type") # JStr(<<"UNKNOWN">>)
          /\ \A k \in DOMAIN DOCUMENT_FIELDS : <<k>> # Get(result, "classified_type").v

\* C12: a group whose classification answer is not of the schema is never
\* submitted to extraction, and its row has a classification-failed status.
C12_DeviationIsClassificationFailure ==
    \A key \in ClassifiedWith(DeviatesFromSchema) :
        /\ key \notin Submitted
        /\ pc = "save" => RowsFor(key) # {}
        /\ \A i \in RowsFor(key) :
               \/ StartsWith(StatusOf(i), "Classification Failed: ")
               \/ StartsWith(StatusOf(i), "ClassificationFailed: ")

\* C13: in every row, a field whose Value column is null has a Confidence
\* column of 0.0.
C13_NullValueHasZeroConfidence ==
    \A i \in DOMAIN final_results_list :
        \A t \in DOMAIN DOCUMENT_FIELDS : \A f \in Range(DOCUMENT_FIELDS[t]) :
            LET row == final_results_list[i]
                prefix == ColumnPrefix(Chars(t), Chars(f))
            IN (ColumnName(prefix, "Value") \in DOMAIN row
                    /\ row[ColumnName(prefix, "Value")] = JNull) =>
                   /\ ColumnName(prefix, "Confidence") \in DOMAIN row
                   /\ row[ColumnName(prefix, "Confidence")] = JNum(0)

\* A field of an extraction answer that is missing (None) or malformed: not
\* an object, without one of the three keys, or with a confidence out of range.
IsMalformedField(field_data) ==
    \/ field_data.t # "dict"
    \/ ~({"value", "confidence", "reasoning"} \subseteq DOMAIN field_data.v)
    \/ ~IsConfidence(field_data.v["confidence"])

\* The tasks whose extraction call returned a parsed answer.
ParsedTasks ==
    {t \in DOMAIN extraction_tasks :
        /\ extraction_tasks[t].key \in DOMAIN extraction_results_map
        /\ extraction_results_map[extraction_tasks[t].key]
               \in AnyExtractionAnswers(extraction_tasks[t].fields_to_extract)}

\* C14: the row of a task whose extraction answer was parsed says
\* "Extraction Partially Successful (Format Issue)" when a catalog field is
\* missing or malformed in the answer, and "Extraction Successful" otherwise.
C14_PartialIffFieldMalformed ==
    pc = "save" =>
        \A t \in ParsedTasks :
            LET task == extraction_tasks[t]
                answer == extraction_results_map[task.key]
                malformed == \E f \in Range(task.fields_to_extract) :
                                 IsMalformedField(Get(answer, f))
            IN \A i \in RowsFor(task.key) :
                   StatusOf(i) = IF malformed
                                 THEN <<"Extraction Partially Successful (Format Issue)">>
                                 ELSE <<"Extraction Successful">>

\* -------------------------------- properties of the batch of two documents
InvoiceKey == <<ScenarioCase, InvoiceBase>>
CrlKey == <<ScenarioCase, CrlBase>>

\* The columns every group row has.
GroupColumns ==
    {Col("CASE_ID"), Col("GROUP_Basename"), Col("CLASSIFIED_Type"),
     Col("CLASSIFICATION_Confidence"), Col("CLASSIFICATION_Reasoning"),
     Col("Processing_Status")}

\* The Value, Confidence and Reasoning columns of the fields of INVOICE.
InvoiceColumns ==
    {ColumnName(ColumnPrefix(<<"INVOICE">>, Chars(f)), kind) :
        f \in Range(RealCatalog["INVOICE"]), kind \in {"Value", "Confidence", "Reasoning"}}

\* The pages of a group, as paths in the order of the group's list.
PathsOf(groups, base_name) ==
    {[i \in DOMAIN groups[g].files |-> groups[g].files[i].path] :
        g \in {h \in DOMAIN groups : groups[h].base_name = base_name}}

\* C20: in the batch of the two documents, grouping yields 'Invoice' with
\* its pages 1 and 2 in that order and 'CRL' with its page 1; extraction is
\* submitted for 'Invoice' only; the rows to save are exactly two, one of
\* 'Invoice' saying "Extraction Successful" with the INVOICE columns, one of
\* 'CRL' saying "Classified as UNKNOWN" with no column of a field.
C20_TwoDocumentsScenario ==
    /\ pc \notin {"start", "returned", "raised"} =>
           /\ Len(initial_groups) = 1
           /\ Len(initial_groups[1].groups) = 2
           /\ PathsOf(initial_groups[1].groups, InvoiceBase)
                  = {<<PageFile(InvoiceBase, "1"), PageFile(InvoiceBase, "2")>>}
           /\ PathsOf(initial_groups[1].groups, CrlBase) = {<<PageFile(CrlBase, "1")>>}
    /\ Submitted \subseteq {InvoiceKey}
    /\ ExtractionSubmitted => Submitted = {InvoiceKey}
    /\ pc = "save" =>
           /\ Len(final_results_list) = 2
           /\ \E i, j \in DOMAIN final_results_list :
                  /\ RowsFor(InvoiceKey) = {i}
                  /\ StatusOf(i) = <<"Extraction Successful">>
                  /\ final_results_list[i][Col("CLASSIFIED_Type")] = JStr(<<"INVOICE">>)
                  /\ DOMAIN final_results_list[i] = GroupColumns \cup InvoiceColumns
                  /\ RowsFor(CrlKey) = {j}
                  /\ StatusOf(j) = <<"Classified as UNKNOWN">>
                  /\ DOMAIN final_results_list[j] = GroupColumns

\* The folder listed 'Invoice 2.pdf' first, the pool had two workers, and
\* the two rows are ready to be saved.
C20_Witness ==
    /\ pc = "save"
    /\ MAX_WORKERS = 2
    /\ case_folders[1].listing[1].name = PageFile(InvoiceBase, "2")
    /\ Len(final_results_list) = 2
    /\ DOMAIN extraction_results_map = {InvoiceKey}

\* ------------------------------------------------ properties of the backoff
RECURSIVE Pow(_, _)
Pow(b, n) == IF n = 0 THEN 1 ELSE b * Pow(b, n - 1)

Min(a, b) == IF a <= b THEN a ELSE b

\* The code has no max_delay setting.  The delay that caps every sleep is
\* the one before the last retry the budget allows (16 seconds).
LargestDelay == initial_delay * Pow(exponential_base, max_retries - 1)

BudgetExhausted ==
    /\ rpc = "done"
    /\ Len(attempts) = max_retries + 1
    /\ \A i \in DOMAIN attempts : attempts[i].raised /\ IsRetryable(attempts[i].exc)

LastError == attempts[Len(attempts)].exc

\* The prefix of the status of a row whose stage call failed.
FailedPrefix == IF stage = "classify" THEN "Classification Failed: " ELSE "Extraction Failed: "

\* C22: when the retry budget of a stage call is exhausted, no exception of
\* the call leaves the worker: the call returns an error dict whose detail
\* embeds the last retryable error, the future is collected as a returned
\* value, and the row of the group says "Classification Failed: <detail>" or
\* "Extraction Failed: <detail>" with that detail.
C22_ExhaustionIsAFailureRow ==
    BudgetExhausted =>
        /\ stage_result = [error |-> JStr(<<"Vertex AI API Error: ", LastError>>)]
        /\ exc \in {"none", "RuntimeError"}
        /\ \A j \in DOMAIN classification_results :
               stage = "classify" => classification_results[j].result = stage_result
        /\ \A k \in DOMAIN extraction_results_map :
               stage = "extract" => extraction_results_map[k] = stage_result
        /\ pc = "save" =>
               /\ Len(final_results_list) = 1
               /\ StatusOf(1) = <<FailedPrefix, "Vertex AI API Error: ", LastError>>

\* An extraction call exhausted its budget, its last error differing from
\* its first, and the row of the group is ready to be saved.
C22_Witness ==
    /\ BudgetExhausted
    /\ stage = "extract"
    /\ attempts[1].exc # LastError
    /\ pc = "save"
    /\ Len(final_results_list) = 1

\* ------------------------------------- properties of an unreadable page file
\* The followed stage call ended without a generate_content call: a page of
\* the group could not be read.
PrepareFailed == rpc = "done" /\ attempts = <<>>

\* The text holds the name, piece by piece.
Contains(text, name) ==
    \E i \in 1..(Len(text) - Len(name) + 1) : SubSeq(text, i, i + Len(name) - 1) = name

PrepareFailedText ==
    IF stage = "classify" THEN "Failed to prepare document parts"
    ELSE "Failed to prepare document parts for extraction"

\* C23, as stated: when a page of the group cannot be read, the stage call
\* returns a failure without a generate_content call, and the failure
\* detail carries the name of a file of the group.
C23_UnreadablePageNamedInFailure ==
    PrepareFailed =>
        /\ "error" \in DOMAIN stage_result
        /\ sleeps = 0
        /\ \E f \in Range(case_folders[1].listing) :
               Contains(stage_result.error.v, f.name)

\* C23, amended: when a page of the group cannot be read, the stage call
\* returns a failure without a generate_content call or a sleep; the failure
\* detail is the fixed text of the call site, without a file name, and the
\* row of the group carries it.
C23_UnreadablePageIsAFailure ==
    PrepareFailed =>
        /\ stage_result = [error |-> JStr(<<PrepareFailedText>>)]
        /\ sleeps = 0
        /\ num_retries = 0
        /\ \A f \in Range(case_folders[1].listing) :
               ~Contains(stage_result.error.v, f.name)
        /\ pc = "save" =>
               /\ Len(final_results_list) = 1
               /\ StatusOf(1) = <<FailedPrefix, PrepareFailedText>>

\* A page could not be read for the extraction call, and the row of the
\* group is ready to be saved.
C23_Witness ==
    /\ PrepareFailed
    /\ stage = "extract"
    /\ pc = "save"
    /\ StatusOf(1) = <<"Extraction Failed: ", "Failed to prepare document parts for extraction">>

\* --------------------------------- properties of the types without a catalog
\* The answer names a type other than "UNKNOWN": a non-empty string or a
\* non-zero number.
NamesKnownType(result) ==
    LET classified_type == Get(result, "classified_type")
    IN /\ "error" \notin DOMAIN result
       /\ \/ classified_type.t = "str" /\ classified_type.v # <<>>
          \/ classified_type.t = "num" /\ classified_type.v # 0
       /\ classified_type # JStr(<<"UNKNOWN">>)

KeysNamed(classified_type) ==
    {k \in DOMAIN DOCUMENT_FIELDS : classified_type = JStr(<<k>>)}

\* The type is no key of the catalog.
IsUnconfiguredResult(result) ==
    NamesKnownType(result) /\ KeysNamed(Get(result, "classified_type")) = {}

\* The type is a key of the catalog whose list of fields is empty.
IsFieldlessResult(result) ==
    /\ NamesKnownType(result)
    /\ \E k \in KeysNamed(Get(result, "classified_type")) : DOCUMENT_FIELDS[k] = <<>>

\* The rows of the key are one row with the status, which keeps the type,
\* the confidence and the reasoning of the answer.
HasSkippedRow(key, result, status) ==
    /\ Cardinality(RowsFor(key)) = 1
    /\ \A i \in RowsFor(key) :
           /\ StatusOf(i) = status
           /\ final_results_list[i][Col("CLASSIFIED_Type")] = Get(result, "classified_type")
           /\ final_results_list[i][Col("CLASSIFICATION_Confidence")] = Get(result, "confidence")
           /\ final_results_list[i][Col("CLASSIFICATION_Reasoning")] = Get(result, "reasoning")

\* C24: a group classified without error as a type other than "UNKNOWN" is
\* never submitted to extraction when the type is no key of the catalog or a
\* key without fields, and its row to save says "Classified as '<type>'
\* (Unsupported/Not Configured)" in the first case and "Extraction skipped -
\* No fields configured" in the second, with the type, the confidence and
\* the reasoning of the answer.
C24_NoCatalogIsSkipped ==
    \A j \in DOMAIN classification_results :
        LET key == classification_results[j].key
            result == classification_results[j].result
        IN /\ IsUnconfiguredResult(result) =>
                  /\ key \notin Submitted
                  /\ pc = "save" =>
                         HasSkippedRow(key, result,
                             <<"Classified as '">> \o Format(Get(result, "classified_type"))
                                 \o <<"' (Unsupported/Not Configured)">>)
           /\ IsFieldlessResult(result) =>
                  /\ key \notin Submitted
                  /\ pc = "save" =>
                         HasSkippedRow(key, result,
                             <<"Extraction skipped - No fields configured">>)

\* The rows to save hold the row of a group whose type has no field and
\* the row of a group whose type is no catalog key.
C24_Witness ==
    /\ pc = "save"
    /\ \E j \in DOMAIN classification_results :
           /\ IsFieldlessResult(classification_results[j].result)
           /\ RowsFor(classification_results[j].key) # {}
    /\ \E j \in DOMAIN classification_results :
           /\ IsUnconfiguredResult(classification_results[j].result)
           /\ RowsFor(classification_results[j].key) # {}

\* ------------------------------------------- properties of the worker pools
Queued(state) == {k \in DOMAIN state : state[k] = "queued"}
Finished(state) == {k \in DOMAIN state : state[k] = "done"}

\* The keys with an outcome in classification_results.
ClassifiedKeys == {classification_results[j].key : j \in DOMAIN classification_results}

IsFailure(result) == "error" \in DOMAIN result

\* C25: a task is never cancelled, whatever the other tasks did.  Once a
\* pool is left, every task submitted to it has its outcome recorded, the
\* failures of the other tasks notwithstanding; and while the pool is at
\* work, a waiting task can start whenever fewer than MAX_WORKERS tasks are
\* running, a running task can return and a finished one can be collected,
\* whatever the other workers are doing.
C25_NoCrossGroupCancellation ==
    /\ pc \in {"extract", "save", "returned"} =>
           /\ ClassifiedKeys = Range(classification_tasks)
           /\ \A k \in DOMAIN cls_state : cls_state[k] = "collected"
    /\ pc \in {"save", "returned"} =>
           /\ DOMAIN extraction_results_map
                  = {extraction_tasks[i].key : i \in DOMAIN extraction_tasks}
           /\ \A k \in DOMAIN ext_state : ext_state[k] = "collected"
    /\ pc = "classify" =>
           /\ (Queued(cls_state) # {} /\ Cardinality(Running(cls_state)) < MAX_WORKERS)
                  => ENABLED (\E i \in DOMAIN classification_tasks : ClassifyStart(i))
           /\ \A k \in Running(cls_state) : ENABLED ClassifyReturn(k)
           /\ \A k \in Finished(cls_state) :
                  ENABLED (\E o \in ClassifyOutcomes(k) : ClassifyCollect(k, o))
    /\ pc = "extract" =>
           /\ (Queued(ext_state) # {} /\ Cardinality(Running(ext_state)) < MAX_WORKERS)
                  => ENABLED (\E i \in DOMAIN extraction_tasks : ExtractStart(i))
           /\ \A i \in DOMAIN extraction_tasks :
                  /\ ext_state[extraction_tasks[i].key] = "running" => ENABLED ExtractReturn(i)
                  /\ ext_state[extraction_tasks[i].key] = "done" =>
                         ENABLED (\E o \in ExtractOutcomes(extraction_tasks[i]) :
                                      ExtractCollect(extraction_tasks[i].key, o))

\* The first of two groups is still inside its classification call while
\* the second, started after it, has failed and been collected.
C25_Witness ==
    /\ pc = "classify"
    /\ Len(classification_tasks) = 2
    /\ cls_state[classification_tasks[1]] = "running"
    /\ cls_state[classification_tasks[2]] = "collected"
    /\ IsFailure(classification_results[1].result)

\* ------------------------------------- properties of the outcome collections
\* The number of entries classification_results has for a key.
EntriesOf(key) ==
    Cardinality({j \in DOMAIN classification_results : classification_results[j].key = key})

\* A step that writes classification_results: it adds the entry of one key
\* that had none, as the loop of the main thread collects the finished
\* future of that key, and it changes no other entry and no other future.
WritesOneClassification ==
    \E k \in Finished(cls_state) :
        /\ k \notin ClassifiedKeys
        /\ Len(classification_results') = Len(classification_results) + 1
        /\ SubSeq(classification_results', 1, Len(classification_results)) = classification_results
        /\ classification_results'[Len(classification_results')].key = k
        /\ cls_state' = [cls_state EXCEPT ![k] = "collected"]
        /\ UNCHANGED <<ext_state, extraction_results_map>>

\* The same for extraction_results_map.
WritesOneExtraction ==
    \E k \in Finished(ext_state) :
        /\ k \notin DOMAIN extraction_results_map
        /\ DOMAIN extraction_results_map' = DOMAIN extraction_results_map \cup {k}
        /\ \A other \in DOMAIN extraction_results_map :
               extraction_results_map'[other] = extraction_results_map[other]
        /\ ext_state' = [ext_state EXCEPT ![k] = "collected"]
        /\ UNCHANGED <<cls_state, classification_results>>

\* process_zip_file raises in the step: its collections are gone with its frame.
FrameDiscarded == pc' = "raised"

\* C26: each of classification_results and extraction_results_map is
\* written once per key: every write adds the entry of one key that had
\* none, one future at a time, and no entry is changed afterwards; when a
\* pool is left each of its keys has exactly one entry.
C26_WrittenOncePerKey ==
    /\ [](pc \in {"extract", "save", "returned"} =>
              \A key \in Range(classification_tasks) : EntriesOf(key) = 1)
    /\ [](pc \in {"save", "returned"} =>
              DOMAIN extraction_results_map
                  = {extraction_tasks[i].key : i \in DOMAIN extraction_tasks})
    /\ [][/\ (classification_results' # classification_results /\ ~FrameDiscarded)
                 => WritesOneClassification
          /\ (extraction_results_map' # extraction_results_map /\ ~FrameDiscarded)
                 => WritesOneExtraction]_vars

\* Two groups have their classification entries and two extraction entries
\* have been written, in the order opposite to that of the tasks.
C26_Witness ==
    /\ pc = "save"
    /\ Len(classification_results) = 2
    /\ Cardinality(DOMAIN extraction_results_map) = 2
    /\ classification_results[1].key = classification_tasks[2]

\* ------------------------------------------ properties of the pools' bounds
\* The stage calls in progress: each makes one generate_content call at a
\* time, so the calls in flight are no more than these.
CallsInProgress == Cardinality(Running(cls_state)) + Cardinality(Running(ext_state))

\* C27: at every moment at most MAX_WORKERS stage calls, hence at most
\* MAX_WORKERS generate_content calls, are in progress, in the
\* classification phase and in the extraction phase alike.
C27_CallsBoundedByPool ==
    /\ Cardinality(Running(cls_state)) <= MAX_WORKERS
    /\ Cardinality(Running(ext_state)) <= MAX_WORKERS
    /\ CallsInProgress <= MAX_WORKERS

\* In a pool of one worker an extraction call runs while another task waits.
C27_Witness ==
    /\ pc = "extract"
    /\ MAX_WORKERS = 1
    /\ Cardinality(Running(ext_state)) = 1
    /\ Queued(ext_state) # {}

\* ------------------------------------------- properties of a group's course
\* How far a future is: waiting, running, finished, collected.
Progress(state) ==
    CASE state = "queued" -> 0
      [] state = "running" -> 1
      [] state = "done" -> 2
      [] state = "collected" -> 3

\* The futures of a pool only move forward in a step.
MovesForward(before, after) ==
    \A k \in DOMAIN before :
        k \in DOMAIN after /\ Progress(after[k]) >= Progress(before[k])

\* The number of tasks a list of tasks has for a key.
TasksOf(keys, key) == Cardinality({i \in DOMAIN keys : keys[i] = key})

ExtractionKeys == [i \in DOMAIN extraction_tasks |-> extraction_tasks[i].key]

\* C28: a group only moves forward.  It has one classification task and at
\* most one extraction task, both submitted once; the future of a task only
\* goes from waiting to running to finished to collected, whatever its
\* outcome; and once the group has its row, its futures are all collected
\* and the row stays.
C28_GroupsOnlyMoveForward ==
    /\ [](/\ \A key \in Range(classification_tasks) :
                 TasksOf(classification_tasks, key) = 1
          /\ \A key \in GroupKeys : TasksOf(ExtractionKeys, key) <= 1
          /\ \A key \in GroupKeys :
                 RowsFor(key) # {} =>
                     /\ cls_state[key] = "collected"
                     /\ key \in DOMAIN ext_state => ext_state[key] = "collected")
    /\ [][~FrameDiscarded =>
              /\ MovesForward(cls_state, cls_state')
              /\ MovesForward(ext_state, ext_state')
              /\ classification_tasks # <<>> => classification_tasks' = classification_tasks
              /\ extraction_tasks # <<>> => extraction_tasks' = extraction_tasks
              /\ \A key \in GroupKeys :
                     RowsFor(key) # {} =>
                         /\ RowsFor(key)' = RowsFor(key)
                         /\ \A i \in RowsFor(key) :
                                final_results_list'[i] = final_results_list[i]]_vars

\* One group failed its classification, the other was extracted, and both
\* have their rows.
C28_Witness ==
    /\ pc = "save"
    /\ \E j \in DOMAIN classification_results : IsFailure(classification_results[j].result)
    /\ Len(extraction_tasks) = 1
    /\ \A key \in GroupKeys : RowsFor(key) # {}
    /\ Cardinality(GroupKeys) = 2

\* ----------------------------------- properties of the synthetic base name
IsNumeric(s) == s # <<>> /\ \A i \in DOMAIN s : s[i] \in Digits

\* The string is a separator (a space, an underscore or the word Page in
\* any letter case) followed by digits.
IsSeparatorAndDigits(s) ==
    \E k \in 1..(Len(s) - 1) :
        /\ LowerStr(SubSeq(s, 1, k)) \in {<<" ">>, <<"_">>, <<"p", "a", "g", "e">>}
        /\ IsNumeric(SubSeq(s, k + 1, Len(s)))

\* The pattern matches the stem from its first character on: nothing stands
\* before the match.
MatchesWholeStem(stem) == IsNumeric(stem) \/ IsSeparatorAndDigits(stem)

\* Only spaces and underscores stand before the match.
OnlySeparatorsBeforeMatch(stem) ==
    \E k \in 1..(Len(stem) - 1) :
        /\ \A i \in 1..k : stem[i] \in {" ", "_"}
        /\ IsSeparatorAndDigits(SubSeq(stem, k + 1, Len(stem)))

\* C29, as stated: for a stem the pattern matches from its first character
\* on, the parser returns the whole stem with the page 1; and it returns
\* "unknown_doc" only for a stem made of digits alone.
C29_UnknownDocOnlyForNumericStems ==
    parsed # <<>> =>
        /\ MatchesWholeStem(StemOf(filename)) => parsed = <<StemOf(filename), 1>>
        /\ parsed[1] = <<"unknown_doc">> => IsNumeric(StemOf(filename))

\* C29, amended: for a stem the pattern matches from its first character
\* on, a stem of digits alone included, the parser returns the whole stem
\* with the page 1; it returns "unknown_doc" exactly for the empty stem and
\* for a stem in which only spaces and underscores stand before the match.
C29_UnknownDocForEmptyOrSeparatorStems ==
    parsed # <<>> =>
        /\ MatchesWholeStem(StemOf(filename)) => parsed = <<StemOf(filename), 1>>
        /\ parsed[1] = <<"unknown_doc">> <=>
               \/ StemOf(filename) = <<>>
               \/ OnlySeparatorsBeforeMatch(StemOf(filename))

\* "11.pdf" was parsed: the stem of digits is the base name, the page is 1.
C29_Witness ==
    /\ filename = <<"1", "1", ".", "p", "d", "f">>
    /\ parsed = << <<"1", "1">>, 1 >>

\* ------------------------------ properties of the keys outside the catalog
\* An extraction answer without its keys that are no field of the catalog.
CatalogKeysOnly(answer, fields) ==
    [f \in DOMAIN answer \cap Range(fields) |-> answer[f]]

\* C30: the row of a task whose extraction answer was parsed is the row the
\* answer gives without its keys that are no field name of the catalog:
\* those keys change no column and not the status.
C30_KeysOutsideCatalogIgnored ==
    pc = "save" =>
        \A t \in ParsedTasks :
            LET task == extraction_tasks[t]
                answer == extraction_results_map[task.key]
            IN \A i \in RowsFor(task.key) :
                   final_results_list[i]
                       = AggregatedRow(task,
                                       CatalogKeysOnly(answer, task.fields_to_extract),
                                       ClassResultOf(task.key))

\* -------------------------------- properties of the order of completion
\* The bag of the items of a sequence.
BagOf(seq) ==
    [x \in Range(seq) |-> Cardinality({i \in DOMAIN seq : seq[i] = x})]

\* What the classification call of a group answered, and what its
\* extraction call answered (None when it had none).
ClassificationOf(key) ==
    classification_results[CHOOSE j \in DOMAIN classification_results :
                               classification_results[j].key = key].result

ExtractionOf(key) ==
    IF key \in DOMAIN extraction_results_map THEN extraction_results_map[key] ELSE JNull

\* The row of a group, from the answers of its own calls alone.
RowFromAnswers(key) ==
    LET decision == FilterDecision(key, ClassificationOf(key))
    IN IF decision.kind = "task"
       THEN AggregatedRow(decision.task, ExtractionOf(key), ClassificationOf(key))
       ELSE decision.row

\* The rows in the order in which the groups were found.
RowsInGroupOrder ==
    PlaceholderRows(initial_groups, 1)
        \o [i \in DOMAIN classification_tasks |-> RowFromAnswers(classification_tasks[i])]

\* An answer on which the filter loop raises.
AnswerRaises(result) ==
    "error" \notin DOMAIN result /\ LookupRaises(Get(result, "classified_type"))

\* C31: the rows to save are, as a bag, the placeholder rows and one row per
\* group that depends on the answers of the group's own calls alone: the
\* order in which the tasks complete changes the order of the rows and
\* nothing else.  Whether the run raises after classification depends on the
\* answers alone as well.
C31_RowsIndependentOfCompletionOrder ==
    /\ [](pc = "save" => BagOf(final_results_list) = BagOf(RowsInGroupOrder))
    /\ [][(pc = "classify" /\ pc' # "classify") =>
              (pc' = "raised" <=>
                   \E j \in DOMAIN classification_results :
                       AnswerRaises(classification_results[j].result))]_vars

\* Two groups were extracted, the second completed its classification
\* first, and the rows are not in the order of the groups.
C31_Witness ==
    /\ pc = "save"
    /\ Len(extraction_tasks) = 2
    /\ classification_results[1].key = classification_tasks[2]
    /\ final_results_list # RowsInGroupOrder

\* --------------------------------------------------- properties of progress
\* The processing phases have ended as they should: both pools have
\* drained and the save step is reached with one row for every group.
PhasesCompleted ==
    /\ pc = "save"
    /\ PoolDrained(cls_state) /\ PoolDrained(ext_state)
    /\ \A key \in GroupKeys : Cardinality(RowsFor(key)) = 1

\* C32: when every call returns or raises, the processing phases end: once
\* the groups are submitted to classification, both pools drain and the
\* save step is reached with the row of every group.
C32_PhasesTerminateWithRows == (pc = "classify") ~> PhasesCompleted

\* ------------------------------------------------- properties of the sleeps
\* C33: in _call_vertex_ai_with_retry a sleep only happens between two
\* calls.  There is none before the first call; a sleep that has returned is
\* followed by a call; and when the function is left, after a response or
\* after the last failure, the sleeps are one fewer than the calls.  The
\* sleep after k earlier sleeps has the delay initial_delay *
\* exponential_base^k before the jitter, and a jitter from 0 to a quarter of
\* that delay.
C33_SleepsOnlyBetweenCalls ==
    /\ attempts = <<>> => sleeps = 0
    /\ (rpc = "call" /\ attempts # <<>>) => sleeps = Len(attempts)
    /\ (rpc = "done" /\ attempts # <<>>) => sleeps = Len(attempts) - 1
    /\ rpc = "sleep" =>
           /\ sleeps = Len(attempts) - 1
           /\ attempts[Len(attempts)].raised
           /\ last_sleep.delay = initial_delay * Pow(exponential_base, sleeps)
           /\ last_sleep.actual_delay >= last_sleep.delay
           /\ 4 * (last_sleep.actual_delay - last_sleep.delay) <= last_sleep.delay

\* The third sleep is in progress, with four times the initial delay.
C33_Witness ==
    /\ rpc = "sleep"
    /\ Len(attempts) = 3
    /\ sleeps = 2
    /\ last_sleep.delay = 4 * initial_delay
    /\ last_sleep.actual_delay > last_sleep.delay

\* ------------------------------------------ properties of the empty cases
\* The rows are those of a run that has grouped its folders and not raised.
RowsKept == pc \in {"classify", "extract", "save", "returned"}

\* The folder lists a regular file with a supported extension.
HoldsDocuments(folder) == \E e \in Range(folder.listing) : IsDocumentEntry(e)

\* The rows that have the case's id and "N/A" for the name of the group.
PlaceholdersOf(case_id) ==
    {i \in DOMAIN final_results_list :
        /\ final_results_list[i][Col("CASE_ID")] = JStr(case_id)
        /\ final_results_list[i][Col("GROUP_Basename")] = JStr(<<"N/A">>)}

\* C34: a case folder without a document yields exactly one placeholder
\* row, with the case's id, "N/A" for the group and the status "No
\* processable document files found" and nothing else, and no
\* classification or extraction task; a case folder with a document yields
\* no placeholder row.
C34_PlaceholderRowForEmptyCase ==
    RowsKept =>
        \A c \in DOMAIN case_folders :
            LET case_id == case_folders[c].name
            IN IF HoldsDocuments(case_folders[c])
               THEN PlaceholdersOf(case_id) = {}
               ELSE /\ Cardinality(PlaceholdersOf(case_id)) = 1
                    /\ \A i \in DOMAIN final_results_list :
                           final_results_list[i][Col("CASE_ID")] = JStr(case_id) =>
                               /\ i \in PlaceholdersOf(case_id)
                               /\ DOMAIN final_results_list[i]
                                      = {Col("CASE_ID"), Col("GROUP_Basename"),
                                         Col("Processing_Status")}
                               /\ StatusOf(i) = <<"No processable document files found">>
                    /\ \A i \in DOMAIN classification_tasks :
                           classification_tasks[i][1] # case_id
                    /\ \A i \in DOMAIN extraction_tasks :
                           extraction_tasks[i].key[1] # case_id

\* A batch of a case with a group and a case without: the rows to save are
\* the row of the group and the placeholder row.
C34_Witness ==
    /\ pc = "save"
    /\ Len(case_folders) = 2
    /\ HoldsDocuments(case_folders[1])
    /\ ~HoldsDocuments(case_folders[2])
    /\ Len(final_results_list) = 2
    /\ Cardinality(PlaceholdersOf(case_folders[2].name)) = 1

\* ------------------------------- properties of the aggregation of one answer
PartialStatus == <<"Extraction Partially Successful (Format Issue)">>

\* The row of a task after the loop over the given fields, in their order.
RowAfterFields(task, fields) ==
    FlattenFields(
        WithStatus(ClassifiedColumns(task.key, task.classified_type,
                                     ClassificationOf(task.key)),
                   <<"Extraction Successful">>),
        task.classified_type, fields, extraction_results_map[task.key])

StatusAfterFields(task, fields) == RowAfterFields(task, fields)[Col("Processing_Status")].v

\* The tasks whose extraction answer was parsed and is aggregated field by field.
FlattenedTasks ==
    {t \in ParsedTasks :
        "error" \notin DOMAIN extraction_results_map[extraction_tasks[t].key]}

\* C35: while the fields of one answer are aggregated, the status is
\* "Extraction Successful" until a field is found that is no object and
\* "Extraction Partially Successful (Format Issue)" from then on; a field
\* that is an object gets its Value, Confidence and Reasoning columns
\* wherever it stands; and the row is the same dict for every order of the
\* catalog's fields.
C35_StatusOnlyDegrades ==
    pc = "save" =>
        \A t \in FlattenedTasks :
            LET task == extraction_tasks[t]
                answer == extraction_results_map[task.key]
            IN \A fields \in Orderings(task.fields_to_extract) :
                   /\ \A i \in RowsFor(task.key) :
                          final_results_list[i] = RowAfterFields(task, fields)
                   /\ \A n \in 0..Len(fields) :
                          StatusAfterFields(task, SubSeq(fields, 1, n)) =
                              IF \E m \in 1..n : Get(answer, fields[m]).t # "dict"
                              THEN PartialStatus
                              ELSE <<"Extraction Successful">>
                   /\ \A n \in 1..Len(fields) :
                          Get(answer, fields[n]).t = "dict" =>
                              \A kind \in {"Value", "Confidence", "Reasoning"} :
                                  ColumnName(ColumnPrefix(Format(task.classified_type),
                                                          Chars(fields[n])), kind)
                                      \in DOMAIN RowAfterFields(task, fields)

\* The first field of the catalog was no object and the second was one: the
\* row is partially successful and has the columns of the second field.
C35_Witness ==
    /\ pc = "save"
    /\ \E t \in FlattenedTasks :
           LET task == extraction_tasks[t]
               answer == extraction_results_map[task.key]
           IN /\ Len(task.fields_to_extract) = 2
              /\ Get(answer, task.fields_to_extract[1]).t # "dict"
              /\ Get(answer, task.fields_to_extract[2]).t = "dict"
              /\ \A i \in RowsFor(task.key) : StatusOf(i) = PartialStatus

\* ------------------------- the classification columns of the extracted groups
ClassificationColumns ==
    {Col("CLASSIFIED_Type"), Col("CLASSIFICATION_Confidence"),
     Col("CLASSIFICATION_Reasoning")}

KeyAndStatusColumns == {Col("CASE_ID"), Col("GROUP_Basename"), Col("Processing_Status")}

\* Whether a row carries the three classification columns of an answer.
CarriesClassification(row, result) ==
    /\ ClassificationColumns \subseteq DOMAIN row
    /\ row[Col("CLASSIFIED_Type")] = Get(result, "classified_type")
    /\ row[Col("CLASSIFICATION_Confidence")] = Get(result, "confidence")
    /\ row[Col("CLASSIFICATION_Reasoning")] = Get(result, "reasoning")

\* C36: the row of every group submitted for extraction carries the type,
\* confidence and reasoning of the group's own classification answer,
\* whatever the extraction gave; a row whose status is "Extraction Failed:
\* ..." has no column of an extracted field; and the row of a group whose
\* classification failed has the key and status columns alone.
C36_ClassificationColumnsKept ==
    pc = "save" =>
        /\ \A t \in DOMAIN extraction_tasks :
               LET key == extraction_tasks[t].key
               IN /\ RowsFor(key) # {}
                  /\ \A i \in RowsFor(key) :
                         /\ CarriesClassification(final_results_list[i],
                                                  ClassificationOf(key))
                         /\ StartsWith(StatusOf(i), "Extraction Failed: ") =>
                                DOMAIN final_results_list[i] =
                                    KeyAndStatusColumns \cup ClassificationColumns
        /\ \A key \in GroupKeys :
               IsFailure(ClassificationOf(key)) =>
                   \A i \in RowsFor(key) :
                       DOMAIN final_results_list[i] = KeyAndStatusColumns

\* Of two groups, one failed its classification and the other was
\* classified and failed its extraction: the row of the second carries its
\* own classification answer.
C36_Witness ==
    /\ pc = "save"
    /\ \E key \in GroupKeys :
           /\ IsFailure(ClassificationOf(key))
           /\ RowsFor(key) # {}
    /\ \E t \in DOMAIN extraction_tasks :
           LET key == extraction_tasks[t].key
           IN /\ IsFailure(ExtractionOf(key))
              /\ \E i \in RowsFor(key) :
                     /\ StartsWith(StatusOf(i), "Extraction Failed: ")
                     /\ final_results_list[i][Col("CLASSIFICATION_Reasoning")] =
                            JStr(<<"about ">> \o key[2])

\* ------------------------------------------- properties of overlapping requests
\* C37: every request whose processing returned gets its response, and
\* every chunk of the response comes from the spreadsheet of the request's
\* own rows: no other request has overwritten or removed the file before
\* it was sent.
C37_RequestsGetTheirOwnRows ==
    \A r \in DOMAIN request :
        /\ request[r] # "send_failed"
        /\ \A n \in DOMAIN received[r] : received[r][n] = r
====
